---------------------------- MODULE Spec2Model ----------------------------
(***************************************************************************)
(* Model of the token-stream transformation stages of caval-corpus.       *)
(*                                                                         *)
(* Every stage is a batch function over one sentence (or one file): the    *)
(* state machine reads an input, applies one stage (or a chain of stages)  *)
(* and holds the result.  `inp` is the input as read, `cur` the sentence   *)
(* after the stages applied so far, `stage` the name of the last stage     *)
(* applied ("input" before any), `reported` what the stages told their     *)
(* caller (printed reports and warnings).                                  *)
(*                                                                         *)
(* Encoding of attribute values.  An id or head value is a tuple of        *)
(* integers: <<n>> is the decimal string n, <<a, b>> the hyphenated        *)
(* string "a-b", <<>> an attribute that is absent (None or "").  The       *)
(* marker "_" and the placeholder ids of Arak29 stage 03 are the tuples    *)
(* defined below.                                                          *)
(*                                                                         *)
(* Source reading.  Many prioel2conllu stages spell the replacement        *)
(* string of set_attr with the prefix frf'...', which Python rejects; the  *)
(* model reads it as rf'...', the spelling of stages 40 and 41.            *)
(* get_attr(line, "id") is modelled for token lines whose id attribute     *)
(* stands before head-id, the attribute order of the PROIEL export.        *)
(***************************************************************************)
EXTENDS Integers, Sequences, FiniteSets, TLC

VARIABLES stage, inp, cur, reported

vars == <<stage, inp, cur, reported>>

(***************************************************************************)
(* Bounds of the model.                                                    *)
(***************************************************************************)
MaxLen == 3

(***************************************************************************)
(* Attribute values.                                                       *)
(***************************************************************************)
Absent == <<>>
Underscore == << -1 >>
Zero == <<0>>

Num(n) == <<n>>
Hyphen(a, b) == <<a, b>>

Ids == 1..MaxLen
NumIds == {Num(n) : n \in Ids}
HyphenIds == {Hyphen(p[1], p[2]) : p \in {q \in Ids \X Ids : q[1] < q[2]}}

\* All sequences over S of length 0..n.
SeqsUpTo(S, n) == UNION {[1..k -> S] : k \in 0..n}

Range(f) == {f[x] : x \in DOMAIN f}

(***************************************************************************)
(* prioel2conllu stage 42: renumber ids per sentence, remap head-id.       *)
(***************************************************************************)
is_hyphen_id(id_value) == Len(id_value) = 2

\* First pass of build_id_mapping: sequential numbers for the non-hyphen
\* ids, in order of appearance; an id already in the mapping is skipped.
RECURSIVE build_id_mapping_first(_, _, _)
build_id_mapping_first(tokens, mapping, counter) ==
    IF tokens = <<>> THEN mapping
    ELSE LET tid == Head(tokens).id IN
         IF tid # Absent /\ ~is_hyphen_id(tid) /\ tid \notin DOMAIN mapping
         THEN build_id_mapping_first(Tail(tokens),
                                     mapping @@ (tid :> Num(counter)),
                                     counter + 1)
         ELSE build_id_mapping_first(Tail(tokens), mapping, counter)

\* Second pass: a hyphen id maps to <map(a)>-<map(b)> when both parts are
\* in the mapping.
RECURSIVE build_id_mapping_second(_, _)
build_id_mapping_second(tokens, mapping) ==
    IF tokens = <<>> THEN mapping
    ELSE LET tid == Head(tokens).id
             a == Num(tid[1])
             b == Num(tid[2])
         IN IF tid # Absent /\ is_hyphen_id(tid)
                  /\ a \in DOMAIN mapping /\ b \in DOMAIN mapping
            THEN build_id_mapping_second(
                     Tail(tokens),
                     (tid :> Hyphen(mapping[a][1], mapping[b][1])) @@ mapping)
            ELSE build_id_mapping_second(Tail(tokens), mapping)

\* The same two passes with the counter started at 0: a numbering the code
\* does not produce, against which the claims on sequential ids are tested.
build_id_mapping_from_zero(tokens) ==
    build_id_mapping_second(tokens, build_id_mapping_first(tokens, <<>>, 0))

build_id_mapping(tokens) ==
    build_id_mapping_second(tokens, build_id_mapping_first(tokens, <<>>, 1))

map_head_id(head_id, id_map, is_hyphen) ==
    IF head_id = Absent \/ head_id = Underscore
    THEN (IF is_hyphen THEN Underscore ELSE Zero)
    ELSE IF head_id \in DOMAIN id_map THEN id_map[head_id]
    ELSE head_id

\* The rewrite loop of process_sentence: id := mapped id (kept when
\* unmapped), head-id := map_head_id.
rewrite_token_42(t, id_map) ==
    LET new_id == IF t.id \in DOMAIN id_map THEN id_map[t.id] ELSE t.id
    IN [t EXCEPT !.id = new_id,
                 !.head = map_head_id(t.head, id_map, is_hyphen_id(new_id))]

process_sentence_42(tokens) ==
    IF tokens = <<>> THEN tokens
    ELSE LET id_map == build_id_mapping(tokens)
         IN [i \in 1..Len(tokens) |-> rewrite_token_42(tokens[i], id_map)]

(***************************************************************************)
(* Specification of stage 42 alone: the input is any token list whose ids  *)
(* are numbers or hyphenated ranges (out of order, reused) and whose       *)
(* head-id is absent, "0" or a number.                                     *)
(***************************************************************************)
Tokens42 ==
    [id : NumIds, head : {Absent, Zero} \cup NumIds]
    \cup [id : HyphenIds, head : {Absent}]

Init42 ==
    /\ stage = "input"
    /\ inp \in SeqsUpTo(Tokens42, MaxLen)
    /\ cur = inp
    /\ reported = {}

\* The lines process_sentence prints with --verbose: one per token whose id
\* changes.  Nothing else is told to the caller.
report_42(tokens, verbose) ==
    IF verbose /\ tokens # <<>>
    THEN LET out == process_sentence_42(tokens) IN
         {[kind |-> "renumber", id |-> tokens[i].id, new_id |-> out[i].id,
           head |-> tokens[i].head, new_head |-> out[i].head] :
             i \in {j \in 1..Len(tokens) : tokens[j].id # out[j].id}}
    ELSE {}

\* Stage 42 over the sentence left by the stage `from`.
Run42(from) ==
    /\ stage = from
    /\ stage' = "42"
    /\ \E verbose \in BOOLEAN :
         /\ cur' = process_sentence_42(cur)
         /\ reported' = reported \cup report_42(cur, verbose)
    /\ UNCHANGED inp

Stage42 == Run42("input")

Next42 == Stage42

Spec42 == Init42 /\ [][Next42]_vars

(***************************************************************************)
(* Specification of stage 42 over sentences with multiword spans.  A span  *)
(* row a-b stands directly before its member tokens, whose ids are a and   *)
(* b; the tokens before and after the span carry any ids (out of order,    *)
(* reused), and a second span may follow the first.                        *)
(***************************************************************************)
Atomic42 == [id : NumIds, head : {Absent, Zero} \cup NumIds]

Span42(a, h) ==
    <<[id |-> Hyphen(a, a + 1), head |-> Absent],
      [id |-> Num(a), head |-> h[1]],
      [id |-> Num(a + 1), head |-> h[2]]>>

InitSpan42 ==
    /\ stage = "input"
    /\ \E pre \in SeqsUpTo(Atomic42, 1), a \in 1..(MaxLen - 1),
          h \in [1..2 -> {Absent, Zero} \cup NumIds] :
         \/ \E post \in SeqsUpTo(Atomic42, 1) :
              inp = pre \o Span42(a, h) \o post
         \/ \E c \in 1..(MaxLen - 1) :
              inp = pre \o Span42(a, h) \o Span42(c, <<Absent, Absent>>)
    /\ cur = inp
    /\ reported = {}

SpecSpan42 == InitSpan42 /\ [][Next42]_vars

(***************************************************************************)
(* prioel2conllu token lines.  A token is the bag of the attributes the    *)
(* stages read: id, head (head-id), rel (relation), pos (part-of-speech),  *)
(* ets (empty-token-sort), lemma, feat (FEAT).  An attribute the line does *)
(* not carry is Absent (head), NoRel (rel) or "" (the others).  The        *)
(* sentences read by the per-stage specifications carry unique ids, the    *)
(* i-th token the id i; a head-id names a token of the sentence other than *)
(* its own token, or is absent.                                            *)
(***************************************************************************)
NoRel == "(none)"

Token(id, head, rel, pos, ets, lemma, feat) ==
    [id |-> id, head |-> head, rel |-> rel, pos |-> pos, ets |-> ets,
     lemma |-> lemma, feat |-> feat]

\* The sentence of the tokens with ids 1..k whose other attributes are the
\* records f[1], ..., f[k] (fields head, rel, pos, ets, lemma, feat).
Sentence(f) ==
    [i \in 1..Len(f) |->
        Token(Num(i), f[i].head, f[i].rel, f[i].pos, f[i].ets, f[i].lemma,
              f[i].feat)]

IdsOf(tokens) == {tokens[i].id : i \in 1..Len(tokens)} \ {Absent}

\* Every head-id names another token of the sentence, or is absent.
HeadsResolve(tokens) ==
    \A i \in 1..Len(tokens) :
        \/ tokens[i].head = Absent
        \/ tokens[i].head \in IdsOf(tokens) /\ tokens[i].head # tokens[i].id

\* inp is a sentence of 1..MaxLen tokens with attributes from Attrs whose
\* head-ids resolve.
ReadSentence(Attrs) ==
    \E k \in 1..MaxLen : \E f \in [1..k -> Attrs] :
        /\ inp = Sentence(f)
        /\ HeadsResolve(Sentence(f))

\* The indices of the set S as a list in sentence order.
RECURSIVE InOrder(_)
InOrder(S) ==
    IF S = {} THEN <<>>
    ELSE LET m == CHOOSE x \in S : \A y \in S : x <= y
         IN <<m>> \o InOrder(S \ {m})

\* tokens without the lines at the indices of `drop`.
RemoveAt(tokens, drop) ==
    LET idx == InOrder((1..Len(tokens)) \ drop)
    IN [i \in 1..Len(idx) |-> tokens[idx[i]]]

HeadChoices == {Absent} \cup NumIds

(***************************************************************************)
(* prioel2conllu stage 37: drop the tokens with empty-token-sort="P" and   *)
(* report (with --verbose) those that have dependents.                     *)
(***************************************************************************)
p_ids_37(lines) ==
    {lines[i].id : i \in {j \in 1..Len(lines) : lines[j].ets = "P"}}
        \ {Absent}

\* dependents.get(pid, []): the ids of the lines whose head-id is pid.
dependents_37(lines, pid) ==
    LET idx == InOrder({j \in 1..Len(lines) :
                           lines[j].head = pid /\ lines[j].id # Absent})
    IN [i \in 1..Len(idx) |-> lines[idx[i]].id]

report_37(lines, verbose) ==
    IF verbose /\ p_ids_37(lines) # {}
    THEN {[kind |-> "empty-P", id |-> pid,
           dependents |-> dependents_37(lines, pid)] :
             pid \in {q \in p_ids_37(lines) : dependents_37(lines, q) # <<>>}}
    ELSE {}

process_sentence_37(lines) ==
    IF p_ids_37(lines) = {} THEN lines
    ELSE RemoveAt(lines, {j \in 1..Len(lines) : lines[j].ets = "P"})

Attrs37 ==
    [head : HeadChoices, rel : {"obl"}, pos : {""}, ets : {"", "P"},
     lemma : {""}, feat : {""}]

Init37 ==
    /\ stage = "input"
    /\ ReadSentence(Attrs37)
    /\ cur = inp
    /\ reported = {}

Stage37 ==
    /\ stage = "input"
    /\ \E verbose \in BOOLEAN :
         /\ cur' = process_sentence_37(cur)
         /\ reported' = reported \cup report_37(cur, verbose)
    /\ stage' = "37"
    /\ UNCHANGED inp

Next37 == Stage37

Spec37 == Init37 /\ [][Next37]_vars

(***************************************************************************)
(* The attribute helpers of the prioel2conllu stages (get_attr, has_attr,  *)
(* set_attr, remove_attr).  set_attr replaces the value of an attribute    *)
(* the line already carries with re.sub and the replacement string         *)
(* \1{value}\2: when the value begins with a digit, "\1" and that digit    *)
(* read as a reference to group 10..19, which the pattern does not have,   *)
(* and re.sub raises re.error (the values "0".."9" and every id of the     *)
(* sentences read here).  Nothing catches it: the stage ends without       *)
(* writing its output.  An attribute the line does not carry is inserted   *)
(* before "/>" by a plain string, with any value.                          *)
(***************************************************************************)
has_head(line) == line.head # Absent

\* A set_attr that always returns: what the stages were written for, not
\* what the template \1<value>\2 does.
set_head_returns(line, value) == FALSE

\* set_attr(line, "head-id", value) raises re.error.
set_head_raises(line, value) == has_head(line) /\ value # Absent

\* set_attr(line, "head-id", value) when it returns.
set_head(line, value) == [line EXCEPT !.head = value]

\* A remove_attr that leaves the line as it is: not what the code does.
keep_head(line) == line

\* remove_attr(line, "head-id").
remove_head(line) == [line EXCEPT !.head = Absent]

\* set_attr(line, "relation", value): the values are words.
set_rel(line, value) == [line EXCEPT !.rel = value]

\* The result of a stage over one sentence: the tokens, or the exception.
Returned(tokens) == [ok |-> TRUE, tokens |-> tokens]
Raised == [ok |-> FALSE, tokens |-> <<>>]

(***************************************************************************)
(* prioel2conllu stage 12: remove the empty C tokens and reattach their    *)
(* dependents.  The C tokens are handled one after the other on the list   *)
(* as edited so far; the lines marked for deletion leave it at the end.    *)
(***************************************************************************)
is_punct_12(line) == line.rel = "punct"

\* Step 1 of the loop body: the first dependent takes the C token's
\* relation and head-id (head-id removed when the C token has none).
first_dependent_12(line, c_rel, c_head) ==
    IF c_head # Absent THEN set_head(set_rel(line, c_rel), c_head)
    ELSE remove_head(set_rel(line, c_rel))

\* Step 2 of the loop body: the dependents after the first.
other_dependents_12(tokens, rest, first_dep_id) ==
    [j \in 1..Len(tokens) |->
        IF j \in Range(rest)
        THEN set_head(IF is_punct_12(tokens[j]) THEN tokens[j]
                      ELSE set_rel(tokens[j], "parataxis"),
                      first_dep_id)
        ELSE tokens[j]]

RECURSIVE c_loop_12(_, _, _)
c_loop_12(tokens, c_indices, to_delete) ==
    IF c_indices = <<>> THEN Returned(RemoveAt(tokens, to_delete))
    ELSE
      LET c_idx == Head(c_indices)
          c_line == tokens[c_idx]
          c_id == c_line.id
          c_rel == c_line.rel
          c_head == c_line.head
          dep_indices == InOrder({j \in 1..Len(tokens) :
                                     j # c_idx /\ tokens[j].head = c_id})
          first_dep_idx == dep_indices[1]
          first_dep_id == tokens[first_dep_idx].id
          rest == Tail(dep_indices)
          tokens1 == [tokens EXCEPT ![first_dep_idx] =
                         first_dependent_12(@, c_rel, c_head)]
      IN IF c_id = Absent
         THEN c_loop_12(tokens, Tail(c_indices), to_delete \cup {c_idx})
         ELSE IF c_rel = NoRel
         THEN c_loop_12(tokens, Tail(c_indices), to_delete)
         ELSE IF dep_indices = <<>>
         THEN c_loop_12(tokens, Tail(c_indices), to_delete \cup {c_idx})
         ELSE IF c_head # Absent
                   /\ set_head_raises(tokens[first_dep_idx], c_head)
         THEN Raised
         ELSE IF \E j \in Range(rest) :
                    set_head_raises(tokens1[j], first_dep_id)
         THEN Raised
         ELSE c_loop_12(other_dependents_12(tokens1, rest, first_dep_id),
                        Tail(c_indices), to_delete \cup {c_idx})

process_sentence_12(tokens) ==
    LET c_indices == InOrder({j \in 1..Len(tokens) : tokens[j].ets = "C"})
    IN IF c_indices = <<>> THEN Returned(tokens)
       ELSE c_loop_12(tokens, c_indices, {})

Attrs12 ==
    [head : HeadChoices, rel : {NoRel, "punct", "pred"}, pos : {""},
     ets : {"", "C"}, lemma : {""}, feat : {""}]

Init12 ==
    /\ stage = "input"
    /\ ReadSentence(Attrs12)
    /\ cur = inp
    /\ reported = {}

\* One stage over the sentence: its output, or the run ends with the
\* exception and nothing is written.
Apply(name, result) ==
    /\ stage' = IF result.ok THEN name ELSE "aborted"
    /\ cur' = IF result.ok THEN result.tokens ELSE cur

Stage12 ==
    /\ stage = "input"
    /\ Apply("12", process_sentence_12(cur))
    /\ UNCHANGED <<inp, reported>>

Next12 == Stage12

Spec12 == Init12 /\ [][Next12]_vars

(***************************************************************************)
(* prioel2conllu stage 11: rewire the coordination headed by a CCONJ.      *)
(* dependents_by_head is computed once from the sentence as read; the      *)
(* CCONJs are then handled one after the other on the list as edited so    *)
(* far.                                                                    *)
(***************************************************************************)
is_cconj(line) == line.pos = "CCONJ"

is_punct_11(line) == line.rel = "punct" \/ line.pos = "PUNCT"

\* dependents_by_head.get(c_id, []): indices of the lines as read whose
\* head-id is c_id.
dependents_by_head(read, c_id) ==
    InOrder({j \in 1..Len(read) : read[j].head = c_id})

\* The dependents examined by the search for the first non-punct
\* dependent: those up to and including it.
first_non_punct_11(tokens, dep_idxs) ==
    {j \in Range(dep_idxs) : ~is_punct_11(tokens[j])}

anchor_idx_11(tokens, dep_idxs) ==
    CHOOSE j \in first_non_punct_11(tokens, dep_idxs) :
        \A y \in first_non_punct_11(tokens, dep_idxs) : j <= y

\* Here dep_idxs is in sentence order, so the punctuation dependents seen
\* before the anchor are those at smaller indices.
skipped_punct_idxs(tokens, dep_idxs) ==
    {j \in Range(dep_idxs) : j < anchor_idx_11(tokens, dep_idxs)}

\* first_after_non_punct_dep_idx(c_idx, c_id), read on the edited list.
after_idxs_11(tokens, c_idx, c_id) ==
    {j \in (c_idx + 1)..Len(tokens) :
        tokens[j].head = c_id /\ ~is_punct_11(tokens[j])}

\* The anchor takes the head-id (or loses its own) and the relation of the
\* CCONJ.
anchor_edit_11(line, c_head, c_rel) ==
    set_rel(IF c_head # Absent THEN set_head(line, c_head)
            ELSE remove_head(line), c_rel)

\* The dependents other than the anchor: relation conj unless punct,
\* head-id the anchor.
others_edit_11(tokens, dep_idxs, anchor_idx, anchor_id) ==
    [j \in 1..Len(tokens) |->
        IF j \in Range(dep_idxs) /\ j # anchor_idx
        THEN set_head(IF is_punct_11(tokens[j]) THEN tokens[j]
                      ELSE set_rel(tokens[j], "conj"), anchor_id)
        ELSE tokens[j]]

RECURSIVE loop_11(_, _, _)
loop_11(read, tokens, positions) ==
    IF positions = <<>> THEN Returned(tokens)
    ELSE
      LET c_idx == Head(positions)
          c_line == tokens[c_idx]
          c_id == read[c_idx].id
          dep_idxs == dependents_by_head(read, c_id)
          c_head == c_line.head
          c_rel == IF c_line.rel = NoRel THEN "cc" ELSE c_line.rel
          only_cc == [tokens EXCEPT ![c_idx] = set_rel(@, "cc")]
          anchor_idx == anchor_idx_11(tokens, dep_idxs)
          anchor_id == tokens[anchor_idx].id
          skipped == skipped_punct_idxs(tokens, dep_idxs)
          tokens1 == [tokens EXCEPT ![anchor_idx] =
                         anchor_edit_11(@, c_head, c_rel)]
          tokens2 == [j \in 1..Len(tokens1) |->
                         IF j \in skipped THEN set_head(tokens1[j], anchor_id)
                         ELSE tokens1[j]]
          tokens3 == others_edit_11(tokens2, dep_idxs, anchor_idx, anchor_id)
          after == after_idxs_11(tokens3, c_idx, c_id)
          after_id == tokens3[CHOOSE j \in after :
                                 \A y \in after : j <= y].id
          tokens4 == IF after = {} THEN tokens3
                     ELSE [tokens3 EXCEPT ![c_idx] = set_head(@, after_id)]
      IN IF dep_idxs = <<>>
         THEN loop_11(read, only_cc, Tail(positions))
         ELSE IF first_non_punct_11(tokens, dep_idxs) = {}
         THEN loop_11(read, only_cc, Tail(positions))
         ELSE IF c_head # Absent /\ set_head_raises(tokens[anchor_idx], c_head)
         THEN Raised
         ELSE IF \E j \in skipped : set_head_raises(tokens1[j], anchor_id)
         THEN Raised
         ELSE IF \E j \in Range(dep_idxs) \ {anchor_idx} :
                    set_head_raises(tokens2[j], anchor_id)
         THEN Raised
         ELSE IF after # {} /\ set_head_raises(tokens3[c_idx], after_id)
         THEN Raised
         ELSE loop_11(read, [tokens4 EXCEPT ![c_idx] = set_rel(@, "cc")],
                      Tail(positions))

process_sentence_11(tokens) ==
    LET cconj_positions ==
            InOrder({j \in 1..Len(tokens) :
                        is_cconj(tokens[j]) /\ tokens[j].id # Absent})
    IN IF cconj_positions = <<>> THEN Returned(tokens)
       ELSE loop_11(tokens, tokens, cconj_positions)

Attrs11 ==
    [head : HeadChoices, rel : {NoRel, "punct", "obl"},
     pos : {"", "CCONJ", "PUNCT"}, ets : {""}, lemma : {""}, feat : {""}]

(***************************************************************************)
(* prioel2conllu stage 40: keep the first root of a sentence and demote    *)
(* every later root to ccomp under the root before it.                     *)
(***************************************************************************)
root_info_40(tokens) ==
    InOrder({j \in 1..Len(tokens) :
                tokens[j].rel = "root" /\ tokens[j].id # Absent})

process_sentence_40(tokens) ==
    LET root_info == root_info_40(tokens)
        prev_id(i) == tokens[root_info[i - 1]].id
    IN IF Len(root_info) <= 1 THEN Returned(tokens)
       ELSE IF \E i \in 2..Len(root_info) :
                  set_head_raises(tokens[root_info[i]], prev_id(i))
       THEN Raised
       ELSE Returned(
              [j \in 1..Len(tokens) |->
                 IF \E i \in 2..Len(root_info) : root_info[i] = j
                 THEN LET i == CHOOSE k \in 2..Len(root_info) :
                                  root_info[k] = j
                      IN set_rel(set_head(tokens[j], prev_id(i)), "ccomp")
                 ELSE tokens[j]])

(***************************************************************************)
(* prioel2conllu stage 41: when the root is the lemma linim and has an obl *)
(* child, the first obl child becomes the root, the other children of      *)
(* linim move under it and linim becomes its cop.                          *)
(***************************************************************************)
children_41(tokens, hid) ==
    InOrder({j \in 1..Len(tokens) : tokens[j].head = hid})

process_sentence_41(tokens) ==
    LET linims == InOrder({j \in 1..Len(tokens) :
                             tokens[j].lemma = "linim"
                             /\ tokens[j].rel = "root"})
        linim_idx == linims[1]
        linim_id == tokens[linim_idx].id
        children == children_41(tokens, linim_id)
        obls == InOrder({j \in Range(children) : tokens[j].rel = "obl"})
        obl_idx == obls[1]
        obl_id == tokens[obl_idx].id
        others == Range(children) \ {obl_idx}
    IN IF tokens = <<>> THEN Returned(tokens)
       ELSE IF linims = <<>> \/ linim_id = Absent THEN Returned(tokens)
       ELSE IF obls = <<>> \/ obl_id = Absent THEN Returned(tokens)
       ELSE IF set_head_raises(tokens[obl_idx], Zero) THEN Raised
       ELSE IF \E j \in others : set_head_raises(tokens[j], obl_id)
       THEN Raised
       ELSE IF linim_idx \notin others
               /\ set_head_raises(tokens[linim_idx], obl_id)
       THEN Raised
       ELSE Returned(
              [j \in 1..Len(tokens) |->
                 IF j = obl_idx
                 THEN set_head(set_rel(tokens[j], "root"), Zero)
                 ELSE IF j = linim_idx
                 THEN set_rel(set_head(tokens[j], obl_id), "cop")
                 ELSE IF j \in others THEN set_head(tokens[j], obl_id)
                 ELSE tokens[j]])

(***************************************************************************)
(* The end of the prioel2conllu chain: stage 40, then 41, then 42, over    *)
(* one sentence.  A stage that raises ends the run.                        *)
(***************************************************************************)
AttrsRoot ==
    [head : HeadChoices, rel : {"root", "obl"}, pos : {""}, ets : {""},
     lemma : {"", "linim"}, feat : {""}]

\* The tokens of a sentence with relation root.
RootTokens(tokens) == {i \in 1..Len(tokens) : tokens[i].rel = "root"}

\* The sentences the chain reads here have at least one root token.
InitRoot ==
    /\ stage = "input"
    /\ ReadSentence(AttrsRoot)
    /\ RootTokens(inp) # {}
    /\ cur = inp
    /\ reported = {}

Stage40 ==
    /\ stage = "input"
    /\ Apply("40", process_sentence_40(cur))
    /\ UNCHANGED <<inp, reported>>

Stage41 ==
    /\ stage = "40"
    /\ Apply("41", process_sentence_41(cur))
    /\ UNCHANGED <<inp, reported>>

NextRoot == Stage40 \/ Stage41 \/ Run42("41")

SpecRoot == InitRoot /\ [][NextRoot]_vars

(***************************************************************************)
(* The rewiring stages 13 (SCONJ), 14 (ADP) and 16 (AUX) of prioel2conllu. *)
(* Each visits the matching tokens in sentence order and edits the token   *)
(* list in place.  The edit of one visit is written as an operator of two  *)
(* sentences: `read`, the lines the rule's conditions and values are taken *)
(* from, and `tokens`, the lines the edit is written to.  The code passes  *)
(* the list it is editing as both.                                         *)
(***************************************************************************)
\* tokens[j] with head-id set to `value`, removed when value is absent.
with_head(line, value) ==
    IF value # Absent THEN set_head(line, value) ELSE remove_head(line)

\* The largest index of a non-empty set of indices.
Last(S) == CHOOSE x \in S : \A y \in S : y <= x

\* Stage 13: DEPENDENT_RELATION_MAP.get(sconj_rel or "", None).
DEPENDENT_RELATION_MAP(rel) ==
    CASE rel = "sub" -> "csubj"
      [] rel = "comp" -> "ccomp"
      [] rel = "aux" -> "ccomp"
      [] rel = "adv" -> "advcl"
      [] rel = "apos" -> "acl"
      [] rel = "atr" -> "acl"
      [] OTHER -> NoRel

\* The SCONJ at index k is visited and has an id.
visits_13(read, k) == read[k].pos = "SCONJ" /\ read[k].id # Absent

dependents_13(read, k) ==
    {j \in 1..Len(read) : j # k /\ read[j].head = read[k].id}

edit_13(read, tokens, k) ==
    LET sconj_head == read[k].head
        dep_rel == DEPENDENT_RELATION_MAP(read[k].rel)
        deps == dependents_13(read, k)
        last_dep_id == read[Last(deps)].id
    IN IF ~visits_13(read, k) \/ deps = {} THEN tokens
       ELSE [j \in 1..Len(tokens) |->
               IF j \in deps
               THEN with_head(IF dep_rel # NoRel
                              THEN set_rel(tokens[j], dep_rel)
                              ELSE tokens[j], sconj_head)
               ELSE IF j = k
               THEN set_head(set_rel(tokens[j], "mark"), last_dep_id)
               ELSE tokens[j]]

\* A set_attr of the visit raises.
raises_13(tokens, k) ==
    LET deps == dependents_13(tokens, k) IN
    /\ visits_13(tokens, k)
    /\ deps # {}
    /\ \/ \E j \in deps : /\ tokens[k].head # Absent
                          /\ set_head_raises(tokens[j], tokens[k].head)
       \/ set_head_raises(tokens[k], tokens[Last(deps)].id)

RECURSIVE loop_13(_, _)
loop_13(tokens, k) ==
    IF k > Len(tokens) THEN Returned(tokens)
    ELSE IF raises_13(tokens, k) THEN Raised
    ELSE loop_13(edit_13(tokens, tokens, k), k + 1)

process_sentence_13(tokens) == loop_13(tokens, 1)

(***************************************************************************)
(* Stage 14: an ADP gives its relation and head to its dependents and      *)
(* becomes case under the last of them; the ADP with lemma z and relation  *)
(* aux becomes a DET.  Tokens whose id is in fixed_ids are left alone.     *)
(* fixed_ids is collected over all the sentences of the file.              *)
(***************************************************************************)
collect_fixed_ids(sentences) ==
    UNION {{sentences[s][i].id :
              i \in {j \in 1..Len(sentences[s]) :
                        sentences[s][j].rel = "fixed"}} \ {Absent}
           : s \in 1..Len(sentences)}

visits_14(read, modified, k) ==
    /\ read[k].pos = "ADP"
    /\ read[k].id # Absent
    /\ read[k].id \notin modified

is_z_aux_14(line) == line.lemma = "z" /\ line.rel = "aux"

dependents_14(read, modified, fixed_ids, k) ==
    {l \in 1..Len(read) :
        /\ l # k
        /\ read[l].id # Absent
        /\ read[l].id \notin fixed_ids
        /\ read[l].head = read[k].id
        /\ read[l].id \notin modified}

\* The general case applies: the ADP is visited, is not the z determiner
\* and is not fixed.
rewires_14(read, modified, fixed_ids, k) ==
    /\ visits_14(read, modified, k)
    /\ ~is_z_aux_14(read[k])
    /\ read[k].id \notin fixed_ids

edit_14(read, tokens, modified, fixed_ids, k) ==
    LET adp_rel == IF read[k].rel = NoRel THEN "" ELSE read[k].rel
        adp_head == read[k].head
        deps == dependents_14(read, modified, fixed_ids, k)
        last_dep_id == read[Last(deps)].id
    IN IF ~visits_14(read, modified, k) THEN tokens
       ELSE IF is_z_aux_14(read[k])
       THEN [tokens EXCEPT ![k] = [@ EXCEPT !.pos = "DET", !.rel = "det",
                                            !.feat = "Definite=Def"]]
       ELSE IF read[k].id \in fixed_ids THEN tokens
       ELSE [l \in 1..Len(tokens) |->
               IF l \in deps
               THEN with_head(set_rel(tokens[l], adp_rel), adp_head)
               ELSE IF l = k
               THEN set_rel(IF deps # {} THEN set_head(tokens[l], last_dep_id)
                            ELSE tokens[l], "case")
               ELSE tokens[l]]

\* The ids added to `modified` by the visit.
modified_14(read, modified, fixed_ids, k) ==
    LET deps == dependents_14(read, modified, fixed_ids, k) IN
    IF ~visits_14(read, modified, k) THEN modified
    ELSE IF is_z_aux_14(read[k]) THEN modified \cup {read[k].id}
    ELSE IF read[k].id \in fixed_ids \/ deps = {} THEN modified
    ELSE modified \cup {read[l].id : l \in deps} \cup {read[k].id}

raises_14(tokens, modified, fixed_ids, k) ==
    LET deps == dependents_14(tokens, modified, fixed_ids, k) IN
    /\ rewires_14(tokens, modified, fixed_ids, k)
    /\ deps # {}
    /\ \/ \E l \in deps : /\ tokens[k].head # Absent
                          /\ set_head_raises(tokens[l], tokens[k].head)
       \/ set_head_raises(tokens[k], tokens[Last(deps)].id)

RECURSIVE loop_14(_, _, _, _)
loop_14(tokens, modified, fixed_ids, k) ==
    IF k > Len(tokens) THEN Returned(tokens)
    ELSE IF raises_14(tokens, modified, fixed_ids, k) THEN Raised
    ELSE loop_14(edit_14(tokens, tokens, modified, fixed_ids, k),
                 modified_14(tokens, modified, fixed_ids, k),
                 fixed_ids, k + 1)

process_sentence_14(tokens, fixed_ids) == loop_14(tokens, {}, fixed_ids, 1)

\* process_file: fixed_ids over the whole file, then sentence by sentence.
process_file_14(parts) ==
    LET fixed_ids == collect_fixed_ids(parts)
        out == [i \in 1..Len(parts) |-> process_sentence_14(parts[i], fixed_ids)]
    IN IF \E i \in 1..Len(parts) : ~out[i].ok THEN Raised
       ELSE Returned([i \in 1..Len(parts) |-> out[i].tokens])

(***************************************************************************)
(* Stage 16: the xadv/xobj dependent of an AUX takes the AUX's relation    *)
(* and head, the other dependents of the AUX and the AUX itself move under *)
(* it, and the AUX becomes aux or cop.                                     *)
(***************************************************************************)
is_aux(line) == line.pos = "AUX"

is_dep_of(line, head_id) == line.head = head_id

is_xadv_or_xobj(line) == line.rel \in {"xadv", "xobj"}

\* The FEAT values with VerbForm=Part and Case=Nom or Case=Acc.
decide_aux_relation(pred_line) ==
    IF pred_line.feat \in {"VerbForm=Part|Case=Nom", "VerbForm=Part|Case=Acc"}
    THEN "aux" ELSE "cop"

preds_16(read, k) ==
    {j \in 1..Len(read) :
        j # k /\ is_dep_of(read[j], read[k].id) /\ is_xadv_or_xobj(read[j])}

\* The AUX at index k is in aux_positions and has a predicate child.
visits_16(read, k) ==
    is_aux(read[k]) /\ read[k].id # Absent /\ preds_16(read, k) # {}

pred_idx_16(read, k) == CHOOSE j \in preds_16(read, k) :
                            \A i \in preds_16(read, k) : j <= i

others_16(read, k) ==
    {j \in 1..Len(read) :
        j # k /\ j # pred_idx_16(read, k) /\ is_dep_of(read[j], read[k].id)}

edit_16(read, tokens, k) ==
    LET aux_head == read[k].head
        aux_rel == read[k].rel
        pred_idx == pred_idx_16(read, k)
        pred_id == read[pred_idx].id
        new_aux_rel == decide_aux_relation(read[pred_idx])
    IN IF ~visits_16(read, k) THEN tokens
       ELSE [j \in 1..Len(tokens) |->
               IF j = pred_idx
               THEN with_head(IF aux_rel # NoRel
                              THEN set_rel(tokens[j], aux_rel)
                              ELSE tokens[j], aux_head)
               ELSE IF j \in others_16(read, k)
               THEN set_head(tokens[j], pred_id)
               ELSE IF j = k
               THEN set_rel(set_head(tokens[j], pred_id), new_aux_rel)
               ELSE tokens[j]]

raises_16(tokens, k) ==
    /\ visits_16(tokens, k)
    /\ LET pred_idx == pred_idx_16(tokens, k)
           pred_id == tokens[pred_idx].id
       IN \/ /\ tokens[k].head # Absent
             /\ set_head_raises(tokens[pred_idx], tokens[k].head)
          \/ \E j \in others_16(tokens, k) :
                set_head_raises(tokens[j], pred_id)
          \/ set_head_raises(tokens[k], pred_id)

RECURSIVE loop_16(_, _)
loop_16(tokens, k) ==
    IF k > Len(tokens) THEN Returned(tokens)
    ELSE IF raises_16(tokens, k) THEN Raised
    ELSE loop_16(edit_16(tokens, tokens, k), k + 1)

process_sentence_16(tokens) ==
    IF tokens = <<>> THEN Returned(tokens) ELSE loop_16(tokens, 1)

(***************************************************************************)
(* Specification of the rewiring stages: one of the stages 13, 14, 16 is   *)
(* applied to a sentence with SCONJ, ADP or AUX tokens.                    *)
(***************************************************************************)
Attrs13 ==
    [head : HeadChoices, rel : {"adv", "obl"}, pos : {"", "SCONJ"},
     ets : {""}, lemma : {""}, feat : {""}]

Attrs14 ==
    [head : HeadChoices, rel : {"aux", "fixed"}, pos : {"", "ADP"},
     ets : {""}, lemma : {"", "z"}, feat : {""}]

Attrs16 ==
    [head : HeadChoices, rel : {"xobj", "pred"}, pos : {"", "AUX"},
     ets : {""}, lemma : {""}, feat : {"", "VerbForm=Part|Case=Nom"}]

InitRewire ==
    /\ stage = "input"
    /\ \/ ReadSentence(Attrs13)
       \/ ReadSentence(Attrs14)
       \/ ReadSentence(Attrs16)
    /\ cur = inp
    /\ reported = {}

Stage13 ==
    /\ stage = "input"
    /\ Apply("13", process_sentence_13(cur))
    /\ UNCHANGED <<inp, reported>>

Stage14 ==
    /\ stage = "input"
    /\ Apply("14", process_sentence_14(cur, collect_fixed_ids(<<cur>>)))
    /\ UNCHANGED <<inp, reported>>

Stage16 ==
    /\ stage = "input"
    /\ Apply("16", process_sentence_16(cur))
    /\ UNCHANGED <<inp, reported>>

NextRewire == Stage13 \/ Stage14 \/ Stage16

SpecRewire == InitRewire /\ [][NextRewire]_vars

(***************************************************************************)
(* Specification of stage 14 over a file: process_file reads the           *)
(* sentences of a file, collects fixed_ids over all of them and rewrites   *)
(* each sentence.  inp and cur hold the list of the file's sentences.      *)
(***************************************************************************)
MaxSentences == 2
FileLen == 2

AttrsFile14 ==
    [head : HeadChoices, rel : {"aux", "fixed"}, pos : {"", "ADP"},
     ets : {""}, lemma : {""}, feat : {""}]

InitFile14 ==
    /\ stage = "input"
    /\ \E n \in 1..MaxSentences :
         \E F \in [1..n -> UNION {[1..k -> AttrsFile14] : k \in 1..FileLen}] :
            /\ inp = [s \in 1..n |-> Sentence(F[s])]
            /\ \A s \in 1..n : HeadsResolve(Sentence(F[s]))
    /\ cur = inp
    /\ reported = {}

File14 ==
    /\ stage = "input"
    /\ Apply("file14", process_file_14(cur))
    /\ UNCHANGED <<inp, reported>>

NextFile14 == File14

SpecFile14 == InitFile14 /\ [][NextFile14]_vars

(***************************************************************************)
(* process_file of stages 11 and 12 over the text of a file.  A text is    *)
(* the list of its lines (text.split("\n"): a text that ends with a        *)
(* newline has an empty last line).  A line is a sentence opener, a token  *)
(* line, the sentence end marker "</sentence>" or a blank line; lines are  *)
(* read without the white space around them.  In the files read here the   *)
(* opener of a sentence stands before its token lines; an opener carries   *)
(* none of the attributes the stages test, so process_sentence passes it   *)
(* through.                                                                *)
(***************************************************************************)
NoTok == Token(Absent, Absent, NoRel, "", "", "", "")

OpenLine == [kind |-> "open", tok |-> NoTok]
SENT_CLOSE == [kind |-> "close", tok |-> NoTok]
BlankLine == [kind |-> "blank", tok |-> NoTok]
TokenLine(t) == [kind |-> "token", tok |-> t]

\* text.split("\n" + SENT_CLOSE): a chunk ends before every end marker
\* that is not the first line of the text; the next chunk begins with what
\* is left of the marker's line, the empty string.
RECURSIVE split_close(_, _, _, _)
split_close(lines, i, chunk, chunks) ==
    IF i > Len(lines) THEN Append(chunks, chunk)
    ELSE IF i >= 2 /\ lines[i] = SENT_CLOSE
         THEN split_close(lines, i + 1, <<BlankLine>>, Append(chunks, chunk))
         ELSE split_close(lines, i + 1, Append(chunk, lines[i]), chunks)

\* The lines of kind k of a chunk, in order.
RECURSIVE lines_of_kind(_, _)
lines_of_kind(chunk, k) ==
    IF chunk = <<>> THEN <<>>
    ELSE IF Head(chunk).kind = k
         THEN <<Head(chunk)>> \o lines_of_kind(Tail(chunk), k)
         ELSE lines_of_kind(Tail(chunk), k)

tokens_of(chunk) ==
    LET ls == lines_of_kind(chunk, "token")
    IN [i \in 1..Len(ls) |-> ls[i].tok]

\* blk = sentences[i].strip(); a blank chunk is kept as it is, any other
\* becomes process_sentence(blk): its non-blank lines, the token lines as
\* the stage leaves them.  An end marker in the chunk (the first line of
\* the text) is a line like an opener.
process_chunk(chunk, result) ==
    IF \A i \in 1..Len(chunk) : chunk[i].kind = "blank" THEN Returned(chunk)
    ELSE IF ~result.ok THEN Raised
    ELSE LET out == lines_of_kind(chunk, "open")
                    \o lines_of_kind(chunk, "close")
                    \o [i \in 1..Len(result.tokens) |->
                           TokenLine(result.tokens[i])]
         IN Returned(IF out = <<>> THEN <<BlankLine>> ELSE out)

\* "\n".join(sentences): the lines of the chunks one after the other.
RECURSIVE join_chunks(_)
join_chunks(chunks) ==
    IF chunks = <<>> THEN <<>>
    ELSE Head(chunks) \o join_chunks(Tail(chunks))

process_file_11(lines) ==
    LET sentences == split_close(lines, 1, <<>>, <<>>)
        done == [i \in 1..Len(sentences) |->
                    process_chunk(sentences[i],
                                  process_sentence_11(tokens_of(sentences[i])))]
    IN IF \E i \in 1..Len(done) : ~done[i].ok THEN Raised
       ELSE Returned(join_chunks([i \in 1..Len(done) |-> done[i].tokens]))

process_file_12(lines) ==
    LET sentences == split_close(lines, 1, <<>>, <<>>)
        done == [i \in 1..Len(sentences) |->
                    process_chunk(sentences[i],
                                  process_sentence_12(tokens_of(sentences[i])))]
    IN IF \E i \in 1..Len(done) : ~done[i].ok THEN Raised
       ELSE Returned(join_chunks([i \in 1..Len(done) |-> done[i].tokens]))

\* The text of the sentences S: opener, token lines and end marker of each,
\* and the empty last line when the text ends with a newline.
RECURSIVE text_of(_, _)
text_of(S, newline) ==
    IF S = <<>> THEN (IF newline THEN <<BlankLine>> ELSE <<>>)
    ELSE <<OpenLine>> \o [i \in 1..Len(Head(S)) |-> TokenLine(Head(S)[i])]
             \o <<SENT_CLOSE>> \o text_of(Tail(S), newline)

AttrsText ==
    [head : HeadChoices, rel : {"obl"}, pos : {"", "CCONJ"},
     ets : {"", "C"}, lemma : {""}, feat : {""}]

InitText ==
    /\ stage = "input"
    /\ \E n \in 1..MaxSentences, newline \in BOOLEAN :
         \E F \in [1..n -> UNION {[1..k -> AttrsText] : k \in 1..FileLen}] :
            /\ inp = text_of([s \in 1..n |-> Sentence(F[s])], newline)
            /\ \A s \in 1..n : HeadsResolve(Sentence(F[s]))
    /\ cur = inp
    /\ reported = {}

File11 ==
    /\ stage = "input"
    /\ Apply("file11", process_file_11(cur))
    /\ UNCHANGED <<inp, reported>>

File12 ==
    /\ stage = "input"
    /\ Apply("file12", process_file_12(cur))
    /\ UNCHANGED <<inp, reported>>

NextText == File11 \/ File12

SpecText == InitText /\ [][NextText]_vars

(***************************************************************************)
(* Arak29toConllu token rows.  A row is the record of the CoNLL-U columns  *)
(* the stages read: id, form, lemma, head, misc.  A form or lemma is the   *)
(* tuple of its letters; head is a number, "0" or the undefined marker     *)
(* (None and "_" are written alike by format_token).                       *)
(***************************************************************************)
Row(id, form, lemma, head, misc) ==
    [id |-> id, form |-> form, lemma |-> lemma, head |-> head, misc |-> misc]

\* The letters of the forms read here: a suffix letter, a leading letter
\* and a letter that is neither; all are lower-case, so str.lower() leaves
\* them as they are.
Letters == {"a", "s", "z"}

lower(form) == form

SUFFIXES == {"s"}

LEADING_LETTERS == {"z"}

\* form[:-1]
ButLast(form) == SubSeq(form, 1, Len(form) - 1)

(***************************************************************************)
(* Arak29toConllu stage 16: reconcile the parsed tokens of a sentence with *)
(* the scraped tokens by four edit rules, applied in passes until a pass   *)
(* changes nothing, then renumber.                                         *)
(***************************************************************************)
max_iters == 1000

\* The last token of the list with id `old` has put its position into
\* id_map[old].
id_map_A16(tokens, old) ==
    Last({i \in 1..Len(tokens) : tokens[i].id = old})

renumber_tokens_A16(tokens) ==
    [i \in 1..Len(tokens) |->
        [tokens[i] EXCEPT
            !.id = Num(i),
            !.head = IF /\ @ # Underscore
                        /\ \E j \in 1..Len(tokens) : tokens[j].id = @
                     THEN Num(id_map_A16(tokens, @))
                     ELSE @]]

ensure_misc_flag(misc, flag) ==
    IF misc = "" \/ misc = "_" THEN flag
    ELSE IF misc = flag THEN misc
    ELSE IF flag = "SpaceAfter=No" THEN flag \o "|" \o misc
    ELSE misc \o "|" \o flag

\* The marker rule 2 pushes after the merged token.
SKIP_NEXT == Row(Absent, <<>>, <<>>, Underscore, "__SKIP_NEXT__")

rule1_A16(s_tok, p_tok) ==
    /\ Len(p_tok.form) >= 2
    /\ lower(s_tok.form) = ButLast(lower(p_tok.form))
    /\ lower(p_tok.form)[Len(p_tok.form)] \in SUFFIXES

rule2_A16(s_tok, p_tok) ==
    /\ Len(s_tok.form) >= 2
    /\ lower(s_tok.form)[Len(s_tok.form)] \in SUFFIXES
    /\ lower(s_tok.form) =
          lower(p_tok.form) \o <<lower(s_tok.form)[Len(s_tok.form)]>>

rule3_A16(s_tok, p_tok) ==
    /\ s_tok.form # <<>>
    /\ lower(s_tok.form)[1] \in LEADING_LETTERS
    /\ Len(s_tok.form) > 1
    /\ Len(p_tok.form) = 1
    /\ lower(p_tok.form)[1] \in LEADING_LETTERS

rule4_A16(s_tok, p_tok) ==
    /\ Len(s_tok.form) = 1
    /\ s_tok.form[1] \in LEADING_LETTERS
    /\ Len(p_tok.form) > 1
    /\ p_tok.form[1] = s_tok.form[1]

\* A pass that carries the parsed token whatever rule fires.
carry_A16(scraped, modified, i) == << modified[i] >>

\* What the pass appends to new_list for position i.
items_A16(scraped, modified, i) ==
    LET s_tok == scraped[i]
        p_tok == modified[i]
        p_form == p_tok.form
    IN IF rule1_A16(s_tok, p_tok)
       THEN << [p_tok EXCEPT !.form = ButLast(p_form),
                             !.misc = ensure_misc_flag(@, "SpaceAfter=No")],
               Row(Num(p_tok.id[1] + 1), <<p_form[Len(p_form)]>>,
                   <<p_form[Len(p_form)]>>, p_tok.id, "_") >>
       ELSE IF rule2_A16(s_tok, p_tok)
       THEN << [p_tok EXCEPT
                  !.form = @ \o <<s_tok.form[Len(s_tok.form)]>>,
                  !.lemma = @ \o <<s_tok.form[Len(s_tok.form)]>>,
                  !.misc = IF @ = "SpaceAfter=No" THEN "_" ELSE @],
               SKIP_NEXT >>
       ELSE IF rule3_A16(s_tok, p_tok) /\ i < Len(modified)
       THEN << >>
       ELSE IF rule4_A16(s_tok, p_tok)
       THEN << Row(p_tok.id, s_tok.form, s_tok.form, Underscore,
                   "SpaceAfter=No"),
               [p_tok EXCEPT !.form = Tail(@),
                             !.lemma = IF Len(@) > 0 THEN Tail(@) ELSE @] >>
       ELSE << p_tok >>

\* A rule fires at position i.
changes_at_A16(scraped, modified, i) ==
    LET s_tok == scraped[i]
        p_tok == modified[i]
    IN \/ rule1_A16(s_tok, p_tok)
       \/ rule2_A16(s_tok, p_tok)
       \/ rule3_A16(s_tok, p_tok) /\ i < Len(modified)
       \/ rule4_A16(s_tok, p_tok)

\* len(list(zip(scraped, modified)))
zip_len(scraped, modified) ==
    IF Len(scraped) <= Len(modified) THEN Len(scraped) ELSE Len(modified)

RECURSIVE new_list_A16(_, _, _)
new_list_A16(scraped, modified, i) ==
    IF i > zip_len(scraped, modified)
    THEN SubSeq(modified, i, Len(modified))
    ELSE items_A16(scraped, modified, i)
            \o new_list_A16(scraped, modified, i + 1)

\* The list without the markers and without the token after each marker.
RECURSIVE cleaned_A16(_, _)
cleaned_A16(new_list, skip) ==
    IF new_list = <<>> THEN <<>>
    ELSE IF skip THEN cleaned_A16(Tail(new_list), FALSE)
    ELSE IF Head(new_list).misc = "__SKIP_NEXT__"
    THEN cleaned_A16(Tail(new_list), TRUE)
    ELSE <<Head(new_list)>> \o cleaned_A16(Tail(new_list), FALSE)

RECURSIVE passes_A16(_, _, _)
passes_A16(scraped, modified, iteration) ==
    IF iteration >= max_iters THEN modified
    ELSE IF \E i \in 1..zip_len(scraped, modified) :
               changes_at_A16(scraped, modified, i)
    THEN passes_A16(scraped,
                    cleaned_A16(new_list_A16(scraped, modified, 1), FALSE),
                    iteration + 1)
    ELSE modified

process_and_modify_tokens(scraped, parsed) ==
    renumber_tokens_A16(passes_A16(scraped, parsed, 0))

(***************************************************************************)
(* Specification of Arak29 stage 16 over one matched sentence: inp holds   *)
(* the scraped and the parsed tokens, cur the merged tokens.  The parsed   *)
(* tokens carry the ids 1..k and heads that are 0 or another token's id.   *)
(***************************************************************************)
ScrapedLen == 2

FormsA16 == {<<"a">>, <<"s">>, <<"z">>, <<"a", "s">>, <<"z", "a">>}

ParsedRow(i, form, head) == Row(Num(i), form, form, head, "_")

ScrapedRow(i, form) == Row(Num(i), form, form, Underscore, "_")

InitA16 ==
    /\ stage = "input"
    /\ \E k \in 1..MaxLen, n \in 1..ScrapedLen :
         \E pf \in [1..k -> FormsA16], ph \in [1..k -> 0..k],
            sf \in [1..n -> FormsA16] :
            /\ \A i \in 1..k : ph[i] # i
            /\ inp = [scraped |-> [i \in 1..n |-> ScrapedRow(i, sf[i])],
                      parsed |-> [i \in 1..k |->
                                    ParsedRow(i, pf[i], Num(ph[i]))]]
    /\ cur = inp.parsed
    /\ reported = {}

StageA16 ==
    /\ stage = "input"
    /\ stage' = "A16"
    /\ cur' = process_and_modify_tokens(inp.scraped, inp.parsed)
    /\ UNCHANGED <<inp, reported>>

NextA16 == StageA16

SpecA16 == InitA16 /\ [][NextA16]_vars

(***************************************************************************)
(* Arak29toConllu stage 03: split the exclamation mark out of the tokens   *)
(* (fix_exclamations) and renumber (renumber_preserving_mwts).  A token is *)
(* the record of the Token fields the stage reads or writes: id, form,     *)
(* head, deprel, mwt_span (_mwt_span, 0 for None).  The field src is not a *)
(* column: it holds the id the row had when it was read and is copied with *)
(* the row, so that a row of the output can be traced to its input token;  *)
(* the rows the stage creates have none.  The letters "!" and "<" stand    *)
(* for the exclamation mark and the left guillemet.                        *)
(***************************************************************************)
EXCL == "!"
LEFT_GUIL == "<"

\* The placeholder ids "MWT", "BASE", "Q", "EXCL".
MWT == << -5 >>
BASE == << -2 >>
Q == << -3 >>
EXCL_ID == << -4 >>

Tok03(id, form, head, deprel, mwt_span, src) ==
    [id |-> id, form |-> form, head |-> head, deprel |-> deprel,
     mwt_span |-> mwt_span, src |-> src]

\* str.isdigit() of an id or head value.
isdigit(v) == Len(v) = 1 /\ v[1] >= 0

make_mwt(form, span) == Tok03(MWT, form, Underscore, "_", span, Absent)

\* re.sub(EXCL + "+", "", form)
RECURSIVE without_excl(_)
without_excl(form) ==
    IF form = <<>> THEN <<>>
    ELSE IF Head(form) = EXCL THEN without_excl(Tail(form))
    ELSE <<Head(form)>> \o without_excl(Tail(form))

startswith(form, letter) == form # <<>> /\ form[1] = letter

RECURSIVE fix_exclamations_from(_, _)
fix_exclamations_from(tokens, i) ==
    IF i > Len(tokens) THEN <<>>
    ELSE
      LET tok == tokens[i]
          form == tok.form
          has_left_guil == startswith(form, LEFT_GUIL) /\ Len(form) > 1
          span == IF has_left_guil THEN 3 ELSE 2
          base_form == without_excl(IF has_left_guil THEN Tail(form)
                                    ELSE form)
          y == Tok03(EXCL_ID, <<EXCL>>, BASE, "punct", 0, Absent)
      IN IF EXCL \in Range(form)
         THEN <<make_mwt(form, span),
                [tok EXCEPT !.id = BASE, !.form = base_form]>>
              \o (IF has_left_guil
                  THEN <<Tok03(Q, <<LEFT_GUIL>>, BASE, "punct", 0, Absent)>>
                  ELSE <<>>)
              \o <<y>>
              \o fix_exclamations_from(tokens, i + 1)
         ELSE IF i + 1 <= Len(tokens) /\ startswith(tokens[i + 1].form, EXCL)
         THEN <<make_mwt(form \o tokens[i + 1].form, 2),
                [tok EXCEPT !.id = BASE], y>>
              \o fix_exclamations_from(tokens, i + 2)
         ELSE <<tok>> \o fix_exclamations_from(tokens, i + 1)

fix_exclamations(tokens) == fix_exclamations_from(tokens, 1)

\* id_map[int(old_id)] = new_id
Put(id_map, old, new) ==
    [x \in DOMAIN id_map \cup {old} |-> IF x = old THEN new ELSE id_map[x]]

\* The following rows of a span taken from index i on, renumbered from
\* `start`; they record their old numeric ids in id_map in turn.
RECURSIVE block_map_03(_, _, _, _, _)
block_map_03(tokens, i, last, start, id_map) ==
    IF i > last THEN id_map
    ELSE block_map_03(tokens, i + 1, last, start + 1,
                      IF isdigit(tokens[i].id)
                      THEN Put(id_map, tokens[i].id, Num(start))
                      ELSE id_map)

RECURSIVE first_pass_03(_, _, _, _, _)
first_pass_03(tokens, i, next_id, id_map, result) ==
    IF i > Len(tokens) THEN [result |-> result, id_map |-> id_map]
    ELSE
      LET tk == tokens[i]
          span == IF tk.mwt_span # 0 THEN tk.mwt_span
                  ELSE tk.id[2] - tk.id[1] + 1
          last == IF i + span <= Len(tokens) THEN i + span ELSE Len(tokens)
      IN IF tk.mwt_span # 0 \/ Len(tk.id) = 2
         THEN first_pass_03(
                tokens, last + 1, next_id + span,
                block_map_03(tokens, i + 1, last, next_id, id_map),
                result
                  \o <<[tk EXCEPT !.id = Hyphen(next_id, next_id + span - 1)]>>
                  \o [j \in 1..(last - i) |->
                        [tokens[i + j] EXCEPT !.id = Num(next_id + j - 1)]])
         ELSE first_pass_03(
                tokens, i + 1, next_id + 1,
                IF isdigit(tk.id) THEN Put(id_map, tk.id, Num(next_id))
                ELSE id_map,
                result \o <<[tk EXCEPT !.id = Num(next_id)]>>)

\* A second pass that leaves the heads as the first pass wrote them.
keep_head_03(result, id_map, k) == result[k].head

\* Second pass: the head of the row at index k of result.
second_pass_head_03(result, id_map, k) ==
    LET h == result[k].head
        before == {q \in 1..(k - 1) : Len(result[q].id) # 2}
    IN IF Len(result[k].id) = 2 THEN h
       ELSE IF isdigit(h)
       THEN (IF h \in DOMAIN id_map THEN id_map[h] ELSE h)
       ELSE IF h \in {BASE, EXCL_ID, Q} /\ before # {}
       THEN result[Last(before)].id
       ELSE h

renumber_preserving_mwts(tokens) ==
    LET first == first_pass_03(tokens, 1, 1, <<>>, <<>>)
    IN [k \in 1..Len(first.result) |->
          [first.result[k] EXCEPT
              !.head = second_pass_head_03(first.result, first.id_map, k)]]

process_sentence_A03(tokens) ==
    renumber_preserving_mwts(fix_exclamations(tokens))

(***************************************************************************)
(* Specification of Arak29 stage 03 over one sentence of atomic tokens     *)
(* with the ids 1..k and heads that are 0 or another token's id.           *)
(***************************************************************************)
FormsA03 == {<<"a">>, <<"a", EXCL>>, <<LEFT_GUIL, "a", EXCL>>, <<EXCL, "a">>}

InitA03 ==
    /\ stage = "input"
    /\ \E k \in 1..MaxLen :
         \E f \in [1..k -> FormsA03], h \in [1..k -> 0..k] :
            /\ \A i \in 1..k : h[i] # i
            /\ inp = [i \in 1..k |->
                        Tok03(Num(i), f[i], Num(h[i]), "dep", 0, Num(i))]
    /\ cur = inp
    /\ reported = {}

\* process_file prints the ids of the sentences it modified; a sentence is
\* reported as modified when fix_exclamations changed it.
StageA03 ==
    /\ stage = "input"
    /\ stage' = "A03"
    /\ cur' = process_sentence_A03(cur)
    /\ reported' = IF fix_exclamations(cur) # cur
                   THEN reported \cup {[kind |-> "modified"]}
                   ELSE reported
    /\ UNCHANGED inp

NextA03 == StageA03

SpecA03 == InitA03 /\ [][NextA03]_vars

(***************************************************************************)
(* Arak29toConllu stage 13: split the Armenian punctuation marks of a      *)
(* FORM into tokens of their own, renumber 1..N, remap HEAD.  A row keeps  *)
(* the columns the stage reads or writes: id, form, head, deprel; src is   *)
(* the position of the input row the output row continues (Absent for a    *)
(* row the stage creates).  The marks are written "'" and "?".             *)
(***************************************************************************)
PUNCT_MARKS == {"'", "?"}

Row13(id, form, head, deprel, src) ==
    [id |-> id, form |-> form, head |-> head, deprel |-> deprel, src |-> src]

\* [ch for ch in FORM if ch in PUNCT_MARKS]
RECURSIVE marks_in_order(_)
marks_in_order(form) ==
    IF form = <<>> THEN <<>>
    ELSE IF Head(form) \in PUNCT_MARKS
         THEN <<Head(form)>> \o marks_in_order(Tail(form))
         ELSE marks_in_order(Tail(form))

\* "".join(ch for ch in FORM if ch not in PUNCT_MARKS)
RECURSIVE base_form_A13(_)
base_form_A13(form) ==
    IF form = <<>> THEN <<>>
    ELSE IF Head(form) \in PUNCT_MARKS
         THEN base_form_A13(Tail(form))
         ELSE <<Head(form)>> \o base_form_A13(Tail(form))

\* MWT_ID_RE.match(tid)
is_mwt_id(tid) == Len(tid) = 2

\* First pass of process_sentence: the plan (kind, payload, base_id,
\* num_puncts) of every row and the map old id -> new base id; a later
\* row with the same old id overwrites the entry of an earlier one.
RECURSIVE first_pass_A13(_, _, _, _, _)
first_pass_A13(parsed, i, next_id, old_to_new, plan) ==
    IF i > Len(parsed) THEN [old_to_new |-> old_to_new, plan |-> plan]
    ELSE LET item == parsed[i]
             num_puncts == Len(marks_in_order(item.form))
             entry(kind, base_id, n) ==
                 [kind |-> kind, payload |-> item, src |-> i,
                  base_id |-> base_id, num_puncts |-> n]
         IN IF is_mwt_id(item.id)
            THEN first_pass_A13(parsed, i + 1, next_id, old_to_new,
                                Append(plan, entry("MWT", -1, 0)))
            ELSE IF isdigit(item.id)
            THEN first_pass_A13(
                     parsed, i + 1, next_id + 1 + num_puncts,
                     Put(old_to_new, item.id, next_id),
                     Append(plan,
                            entry(IF num_puncts > 0 THEN "MWT_SPLIT"
                                  ELSE "COPY", next_id, num_puncts)))
            ELSE first_pass_A13(parsed, i + 1, next_id, old_to_new,
                                Append(plan, entry("BAD", -1, 0)))

\* if HEAD.isdigit(): HEAD = str(old_to_new.get(int(HEAD), 0))
remap_head_A13(HEAD, old_to_new) ==
    IF isdigit(HEAD)
    THEN (IF HEAD \in DOMAIN old_to_new THEN Num(old_to_new[HEAD]) ELSE Zero)
    ELSE HEAD

\* Second pass: the rows emitted for one entry of the plan.
emit_A13(e, old_to_new) ==
    LET cols == e.payload
        HEAD == remap_head_A13(cols.head, old_to_new)
        marks == marks_in_order(cols.form)
    IN IF e.kind = "BAD" THEN <<[cols EXCEPT !.src = Num(e.src)]>>
       ELSE IF e.kind = "MWT" THEN <<>>
       ELSE IF e.kind = "COPY"
       THEN <<Row13(Num(e.base_id), cols.form, HEAD, cols.deprel,
                    Num(e.src))>>
       ELSE <<Row13(Hyphen(e.base_id, e.base_id + e.num_puncts), cols.form,
                    Underscore, "_", Absent),
              Row13(Num(e.base_id), base_form_A13(cols.form), HEAD,
                    cols.deprel, Num(e.src))>>
            \o [i \in 1..e.num_puncts |->
                   Row13(Num(e.base_id + i), <<marks[i]>>, Num(e.base_id),
                         "punct", Absent)]

RECURSIVE second_pass_A13(_, _, _)
second_pass_A13(plan, k, old_to_new) ==
    IF k > Len(plan) THEN <<>>
    ELSE emit_A13(plan[k], old_to_new)
             \o second_pass_A13(plan, k + 1, old_to_new)

process_sentence_A13(parsed) ==
    LET first == first_pass_A13(parsed, 1, 1, <<>>, <<>>)
    IN second_pass_A13(first.plan, 1, first.old_to_new)

(***************************************************************************)
(* The input of Arak29 stage 13: token rows with numeric ids (in any       *)
(* order), existing MWT rows, and rows whose id is not a number; a HEAD    *)
(* is "_", "0" or a number.                                                *)
(***************************************************************************)
FormsA13 == {<<"a">>, <<"a", "'">>, <<"'", "a", "?">>}

RowsA13 ==
    {Row13(id, form, head, "dep", Absent) :
        id \in NumIds, form \in FormsA13,
        head \in {Underscore, Zero} \cup NumIds}
    \cup {Row13(id, <<"a">>, Underscore, "_", Absent) :
            id \in HyphenIds \cup {Underscore}}

InitA13 ==
    /\ stage = "conllu"
    /\ inp \in SeqsUpTo(RowsA13, MaxLen)
    /\ cur = inp
    /\ reported = {}

\* process() writes the output and prints one "[ok] Wrote" line.
StageA13 ==
    /\ stage = "conllu"
    /\ stage' = "A13"
    /\ cur' = process_sentence_A13(cur)
    /\ reported' = reported \cup {[kind |-> "ok"]}
    /\ UNCHANGED inp

NextA13 == StageA13

(***************************************************************************)
(* Arak29toConllu stage 07: split the Armenian punctuation marks attached  *)
(* to a word into tokens of their own, then renumber 1..N and remap HEAD.  *)
(* The rows are those of stage 13 (id, form, head, deprel, src); the       *)
(* marks are written "'", "!" and "?".                                     *)
(***************************************************************************)
ARM_PUNCT == {"'", "!", "?"}

\* [ch for ch in form if ch in ARM_PUNCT]
RECURSIVE puncts_A07(_)
puncts_A07(form) ==
    IF form = <<>> THEN <<>>
    ELSE IF Head(form) \in ARM_PUNCT
         THEN <<Head(form)>> \o puncts_A07(Tail(form))
         ELSE puncts_A07(Tail(form))

\* "".join(ch for ch in form if ch not in ARM_PUNCT)
RECURSIVE base_A07(_)
base_A07(form) ==
    IF form = <<>> THEN <<>>
    ELSE IF Head(form) \in ARM_PUNCT THEN base_A07(Tail(form))
         ELSE <<Head(form)>> \o base_A07(Tail(form))

\* The rows split_attached_punct appends for one token.  int(tk["id"])
\* raises ValueError when the id of a token to split is not a number.
split_token_A07(tk) ==
    LET puncts == puncts_A07(tk.form)
        base == base_A07(tk.form)
        n == Len(puncts)
    IN IF puncts = <<>> THEN Returned(<<tk>>)
       ELSE IF base = <<>>
       THEN Returned([i \in 1..n |->
                [tk EXCEPT !.form = <<puncts[i]>>, !.deprel = "punct"]])
       ELSE IF ~isdigit(tk.id) THEN Raised
       ELSE Returned(
              <<Row13(Hyphen(tk.id[1], tk.id[1] + n), tk.form, Underscore,
                      "_", Absent),
                [tk EXCEPT !.form = base]>>
              \o [i \in 1..n |->
                     Row13(Num(tk.id[1] + i), <<puncts[i]>>, tk.id, "punct",
                           Absent)])

RECURSIVE split_attached_punct(_)
split_attached_punct(tokens) ==
    IF tokens = <<>> THEN Returned(<<>>)
    ELSE LET first == split_token_A07(Head(tokens))
             rest == split_attached_punct(Tail(tokens))
         IN IF first.ok /\ rest.ok
            THEN Returned(first.tokens \o rest.tokens)
            ELSE Raised

\* The number of rows after the MWT row at index i that the inner loop of
\* renumber_tokens consumes: the rows whose ids are old_start, old_start+1,
\* ... in turn, at most count of them.
RECURSIVE consumed_A07(_, _, _, _, _)
consumed_A07(token_dicts, i, j, count, old_start) ==
    IF j < count /\ i + 1 + j <= Len(token_dicts)
         /\ token_dicts[i + 1 + j].id = Num(old_start + j)
    THEN consumed_A07(token_dicts, i, j + 1, count, old_start)
    ELSE j

\* old_id_map after the consumed rows of a span recorded their ids.
RECURSIVE span_map_A07(_, _, _, _, _)
span_map_A07(old_id_map, j, k, old_start, new_start) ==
    IF j >= k THEN old_id_map
    ELSE span_map_A07(Put(old_id_map, Num(old_start + j), Num(new_start + j)),
                      j + 1, k, old_start, new_start)

\* The while loop of renumber_tokens from index i on.
RECURSIVE renumber_from_A07(_, _, _, _, _)
renumber_from_A07(token_dicts, i, next_id, old_id_map, new_list) ==
    IF i > Len(token_dicts)
    THEN [new_list |-> new_list, old_id_map |-> old_id_map]
    ELSE
      LET tk == token_dicts[i]
          tid == tk.id
          old_start == tid[1]
          count == tid[2] - tid[1] + 1
          new_start == next_id
          new_end == new_start + count - 1
          k == consumed_A07(token_dicts, i, 0, count, old_start)
      IN IF is_hyphen_id(tid)
         THEN renumber_from_A07(
                  token_dicts, i + k + 1, new_end + 1,
                  span_map_A07(old_id_map, 0, k, old_start, new_start),
                  Append(new_list, [tk EXCEPT !.id = Hyphen(new_start, new_end)])
                  \o [j \in 1..k |->
                        [token_dicts[i + j] EXCEPT
                            !.id = Num(new_start + j - 1)]])
         ELSE IF isdigit(tid)
         THEN renumber_from_A07(
                  token_dicts, i + 1, next_id + 1,
                  Put(old_id_map, tid, Num(next_id)),
                  Append(new_list, [tk EXCEPT !.id = Num(next_id)]))
         ELSE renumber_from_A07(token_dicts, i + 1, next_id, old_id_map,
                                new_list)

\* The head remap of renumber_tokens: a numeric head found in old_id_map.
remap_head_A07(tk, old_id_map) ==
    IF ~is_hyphen_id(tk.id) /\ isdigit(tk.head) /\ tk.head \in DOMAIN old_id_map
    THEN [tk EXCEPT !.head = old_id_map[tk.head]]
    ELSE tk

renumber_tokens_A07(token_dicts) ==
    LET r == renumber_from_A07(token_dicts, 1, 1, <<>>, <<>>)
    IN [x \in 1..Len(r.new_list) |->
           remap_head_A07(r.new_list[x], r.old_id_map)]

\* One sentence of process_punctuation_fixing: split, then renumber.
process_sentence_A07(tokens) ==
    LET split == split_attached_punct(tokens)
    IN IF split.ok THEN Returned(renumber_tokens_A07(split.tokens))
       ELSE Raised

(***************************************************************************)
(* The Arak29 stages 03, 07 and 13 over the token lines of one sentence as *)
(* they stand in the file.  A line is the number of its tab-separated      *)
(* columns and the row of its first columns; a written line has the ten    *)
(* columns to_line / format_token join.                                    *)
(***************************************************************************)
Columns == 10

Line13(cols, row) == [cols |-> cols, row |-> row]

\* Indices of the lines Token.from_line / parse_token_line accept: a line
\* with fewer than ten columns gives None and is left out of the list.
accepted_lines(lines) == InOrder({i \in 1..Len(lines) : lines[i].cols >= Columns})

\* read_conllu of stage 03: the tokens of the accepted lines.
read_conllu(lines) ==
    LET idx == accepted_lines(lines)
    IN [x \in 1..Len(idx) |->
           Tok03(lines[idx[x]].row.id, lines[idx[x]].row.form,
                 lines[idx[x]].row.head, lines[idx[x]].row.deprel, 0, Num(x))]

\* process_file of stage 03 for one sentence: read, process, write.
process_file_A03(lines) ==
    LET out == process_sentence_A03(read_conllu(lines))
    IN [x \in 1..Len(out) |-> Line13(Columns, out[x])]

\* process_punctuation_fixing of stage 07 for one sentence.
parse_token_lines_A07(lines) ==
    LET idx == accepted_lines(lines)
    IN [x \in 1..Len(idx) |-> lines[idx[x]].row]

process_file_A07(lines) ==
    LET result == process_sentence_A07(parse_token_lines_A07(lines))
    IN IF result.ok
       THEN Returned([x \in 1..Len(result.tokens) |->
                         Line13(Columns, result.tokens[x])])
       ELSE Raised

\* process_sentence of stage 13 keeps a line that does not have exactly ten
\* columns as the string it read (kind "BAD") and writes it as it is.
bad_line_A13 == Row13(Underscore, <<>>, Underscore, "_", Absent)

process_file_A13(lines) ==
    LET parsed == [i \in 1..Len(lines) |->
                      IF lines[i].cols = Columns THEN lines[i].row
                      ELSE bad_line_A13]
        out == process_sentence_A13(parsed)
    IN [x \in 1..Len(out) |->
           IF out[x].src # Absent /\ lines[out[x].src[1]].cols # Columns
           THEN lines[out[x].src[1]]
           ELSE Line13(Columns, out[x])]

FormsCols == {<<"a">>, <<"a", "!">>}

InitCols ==
    /\ stage = "conllu"
    /\ \E k \in 1..MaxLen :
         \E c \in [1..k -> {Columns - 1, Columns, Columns + 1}],
            f \in [1..k -> FormsCols], h \in [1..k -> 0..k] :
            /\ \A i \in 1..k : h[i] # i
            /\ inp = [i \in 1..k |->
                        Line13(c[i], Row13(Num(i), f[i], Num(h[i]), "dep",
                                           Absent))]
    /\ cur = inp
    /\ reported = {}

\* Stage 03 prints the sentences it modified.
FileA03 ==
    /\ stage = "conllu"
    /\ stage' = "fileA03"
    /\ cur' = process_file_A03(cur)
    /\ reported' = IF fix_exclamations(read_conllu(cur)) # read_conllu(cur)
                   THEN reported \cup {[kind |-> "modified"]}
                   ELSE reported
    /\ UNCHANGED inp

\* Stage 07 prints the sentences it modified; an exception ends the run
\* before anything is printed.
FileA07 ==
    /\ stage = "conllu"
    /\ Apply("fileA07", process_file_A07(cur))
    /\ reported' =
         IF process_file_A07(cur).ok
              /\ \E i \in 1..Len(cur) :
                    cur[i].cols >= Columns /\ puncts_A07(cur[i].row.form) # <<>>
         THEN reported \cup {[kind |-> "modified"]}
         ELSE reported
    /\ UNCHANGED inp

FileA13 ==
    /\ stage = "conllu"
    /\ stage' = "fileA13"
    /\ cur' = process_file_A13(cur)
    /\ reported' = reported \cup {[kind |-> "ok"]}
    /\ UNCHANGED inp

NextCols == FileA03 \/ FileA07 \/ FileA13

SpecCols == InitCols /\ [][NextCols]_vars

(***************************************************************************)
(* Arak29toConllu stage 12: derive SpaceAfter=No from the "# text" line.   *)
(* A sentence block is its text (Absent when the block has no "# text ="   *)
(* line) and its token rows; a row is id, form and whether its MISC holds  *)
(* SpaceAfter=No.  Character positions count from 0 as in the source.      *)
(***************************************************************************)
Row12(id, form, spaceafter_no) ==
    [id |-> id, form |-> form, spaceafter_no |-> spaceafter_no]

Block12(text, rows) == [text |-> text, rows |-> rows]

\* text.find(form, cursor): the first position from cursor on where form
\* stands in text, or -1.
find(text, form, cursor) ==
    LET hits == {p \in cursor..(Len(text) - Len(form)) :
                    SubSeq(text, p + 1, p + Len(form)) = form}
    IN IF hits = {} THEN -1
       ELSE CHOOSE p \in hits : \A q \in hits : p <= q

\* _align_forms_in_text: the span of every form, found left to right; a
\* form that is not found gets a span that begins at the cursor.
RECURSIVE align_forms_in_text(_, _, _)
align_forms_in_text(text, forms, cursor) ==
    IF forms = <<>> THEN <<>>
    ELSE LET pos == find(text, Head(forms), cursor)
             start == IF pos = -1 THEN cursor ELSE pos
             end == start + Len(Head(forms))
         IN <<[start |-> start, end |-> end]>>
                \o align_forms_in_text(text, Tail(forms), end)

\* _process_sentence: ValueError when the block has no "# text =" line;
\* otherwise every numeric-id row but the last carries SpaceAfter=No
\* exactly when the next span begins where its own ends.
process_sentence_A12(block) ==
    LET numeric == InOrder({i \in 1..Len(block.rows) :
                              isdigit(block.rows[i].id)})
        forms == [k \in 1..Len(numeric) |-> block.rows[numeric[k]].form]
        spans == align_forms_in_text(block.text, forms, 0)
        flag(k) == k < Len(spans) /\ spans[k + 1].start = spans[k].end
    IN IF block.text = Absent THEN Raised
       ELSE Returned(
              [block EXCEPT !.rows =
                 [i \in 1..Len(block.rows) |->
                    IF \E k \in 1..Len(numeric) : numeric[k] = i
                    THEN [block.rows[i] EXCEPT !.spaceafter_no =
                            flag(CHOOSE k \in 1..Len(numeric) :
                                    numeric[k] = i)]
                    ELSE block.rows[i]]])

\* process of stage 12: every sentence is processed before anything is
\* written; an exception leaves no output file.
RECURSIVE process_A12(_)
process_A12(sentences) ==
    IF sentences = <<>> THEN Returned(<<>>)
    ELSE LET first == process_sentence_A12(Head(sentences))
             rest == process_A12(Tail(sentences))
         IN IF first.ok /\ rest.ok
            THEN Returned(<<first.tokens>> \o rest.tokens)
            ELSE Raised

\* process_punctuation_fixing of stage 07 over the sentences of a file:
\* each sentence is written as soon as it is processed, so an exception
\* leaves the sentences before it in the output file.
RECURSIVE written_A07(_)
written_A07(sentences) ==
    IF sentences = <<>> THEN [ok |-> TRUE, tokens |-> <<>>]
    ELSE LET first == process_sentence_A07(Head(sentences))
             rest == written_A07(Tail(sentences))
         IN IF ~first.ok THEN [ok |-> FALSE, tokens |-> <<>>]
            ELSE [ok |-> rest.ok, tokens |-> <<first.tokens>> \o rest.tokens]

(***************************************************************************)
(* Specification of the stages 07 and 12 over a corpus of several          *)
(* sentences.  A corpus of stage 07 has sentences of atomic rows and span  *)
(* rows (a span row over a form with a mark is what stage 03 writes for a  *)
(* split token); a corpus of stage 12 has blocks with and without a        *)
(* "# text =" line.                                                        *)
(***************************************************************************)
RowsCorpus07(k) ==
    {Row13(Num(i), f, Num(h), "dep", Absent) :
        i \in 1..k, f \in FormsCols, h \in 0..k}
    \cup {Row13(Hyphen(1, 2), f, Underscore, "_", Absent) : f \in FormsCols}

InitCorpus07 ==
    /\ stage = "corpus07"
    /\ \E n \in 1..MaxSentences :
         \E F \in [1..n -> UNION {[1..k -> RowsCorpus07(k)] :
                                     k \in 1..FileLen}] :
            inp = F
    /\ cur = <<>>
    /\ reported = {}

TextsA12 == {Absent, <<"a", "b">>, <<"a", " ", "b">>}

RowsCorpus12 ==
    {Row12(id, f, s) : id \in {Num(1), Hyphen(1, 2)},
                       f \in {<<"a">>, <<"b">>}, s \in BOOLEAN}

InitCorpus12 ==
    /\ stage = "corpus12"
    /\ \E n \in 1..MaxSentences :
         \E T \in [1..n -> TextsA12],
            F \in [1..n -> UNION {[1..k -> RowsCorpus12] :
                                     k \in 1..FileLen}] :
            inp = [s \in 1..n |-> Block12(T[s], F[s])]
    /\ cur = <<>>
    /\ reported = {}

CorpusA07 ==
    /\ stage = "corpus07"
    /\ stage' = IF written_A07(inp).ok THEN "A07" ELSE "A07-aborted"
    /\ cur' = written_A07(inp).tokens
    /\ reported' = IF written_A07(inp).ok
                   THEN reported \cup {[kind |-> "ok"]}
                   ELSE reported
    /\ UNCHANGED inp

CorpusA12 ==
    /\ stage = "corpus12"
    /\ stage' = IF process_A12(inp).ok THEN "A12" ELSE "A12-aborted"
    /\ cur' = process_A12(inp).tokens
    /\ reported' = IF process_A12(inp).ok
                   THEN reported \cup {[kind |-> "ok"]}
                   ELSE reported
    /\ UNCHANGED inp

InitCorpus == InitCorpus07 \/ InitCorpus12

NextCorpus == CorpusA07 \/ CorpusA12

SpecCorpus == InitCorpus /\ [][NextCorpus]_vars

(***************************************************************************)
(* Arak29toConllu stage 02 and the main loop of stage 16: align the parsed *)
(* sentences of a corpus with the scraped sentences by normalized text.    *)
(* A sentence is its sent_id, the letters of its "# text" line and its     *)
(* token rows.  The written sentences carry, besides, the parsed sentences *)
(* they were made of (first, last) and whether a scraped sentence was      *)
(* matched (aligned); the stages write neither.                            *)
(***************************************************************************)
ConlluSentence(sid, text, tokens) ==
    [sid |-> sid, text |-> text, tokens |-> tokens]

Emitted(sentence, first, last, aligned) ==
    [sid |-> sentence.sid, text |-> sentence.text,
     tokens |-> sentence.tokens,
     first |-> first, last |-> last, aligned |-> aligned]

\* PUNCT_STRIP_RE.sub("", s): "." stands for every character that is
\* neither a word character nor white space.
RECURSIVE strip_punct(_)
strip_punct(s) ==
    IF s = <<>> THEN <<>>
    ELSE IF Head(s) = "." THEN strip_punct(Tail(s))
    ELSE <<Head(s)>> \o strip_punct(Tail(s))

\* SPACE_RE.sub(" ", s).strip(): runs of spaces become one space, leading
\* and trailing spaces are dropped.  pending says that a space was read
\* after the last letter put out.
RECURSIVE collapse_spaces(_, _, _)
collapse_spaces(s, started, pending) ==
    IF s = <<>> THEN <<>>
    ELSE IF Head(s) = " " THEN collapse_spaces(Tail(s), started, started)
    ELSE (IF pending THEN <<" ">> ELSE <<>>) \o <<Head(s)>>
            \o collapse_spaces(Tail(s), TRUE, FALSE)

\* normalize_text of stage 02 without the two optional flags.
normalize_text_A02(s) == collapse_spaces(strip_punct(lower(s)), FALSE, FALSE)

\* normalize_text of stage 16: spaces are kept as they are.
normalize_text_A16(text) == strip_punct(lower(text))

\* snorm.startswith(p_norm)
has_prefix(s, prefix) ==
    Len(prefix) <= Len(s) /\ SubSeq(s, 1, Len(prefix)) = prefix

\* First pass of renumber_tokens_preserving_mwt from row i on: the rows
\* with their new ids and the old-to-new id map.  The rows under a span row
\* are atomic rows.
RECURSIVE first_pass_A02(_, _, _, _, _)
first_pass_A02(tokens, i, nxt, new_tokens, id_map) ==
    IF i > Len(tokens) THEN [tokens |-> new_tokens, id_map |-> id_map]
    ELSE IF is_mwt_id(tokens[i].id)
    THEN LET span == tokens[i].id[2] - tokens[i].id[1] + 1
             n == IF i + span <= Len(tokens) THEN span ELSE Len(tokens) - i
             members == [j \in 1..n |->
                            [tokens[i + j] EXCEPT !.id = Num(nxt + j - 1)]]
             olds == {tokens[i + j].id[1] : j \in 1..n}
             map == [o \in DOMAIN id_map \cup olds |->
                        IF o \in olds
                        THEN nxt - 1 + Last({j \in 1..n :
                                               tokens[i + j].id[1] = o})
                        ELSE id_map[o]]
         IN first_pass_A02(tokens, i + 1 + n, nxt + span,
                new_tokens
                    \o <<[tokens[i] EXCEPT
                            !.id = Hyphen(nxt, nxt + span - 1)]>>
                    \o members,
                map)
    ELSE LET old_id == tokens[i].id[1]
         IN first_pass_A02(tokens, i + 1, nxt + 1,
                Append(new_tokens, [tokens[i] EXCEPT !.id = Num(nxt)]),
                [o \in DOMAIN id_map \cup {old_id} |->
                    IF o = old_id THEN nxt ELSE id_map[o]])

renumber_tokens_preserving_mwt(tokens) ==
    LET first == first_pass_A02(tokens, 1, 1, <<>>, <<>>)
    IN [i \in 1..Len(first.tokens) |->
          LET t == first.tokens[i]
          IN IF is_mwt_id(t.id) THEN t
             ELSE IF /\ Len(t.head) = 1
                     /\ t.head[1] >= 0
                     /\ t.head[1] \in DOMAIN first.id_map
             THEN [t EXCEPT !.head = Num(first.id_map[t.head[1]])]
             ELSE t]

\* The texts of parsed[p..end] joined by single spaces.
RECURSIVE join_texts(_, _, _)
join_texts(parsed, p, end) ==
    IF end = p THEN parsed[p].text
    ELSE join_texts(parsed, p, end - 1) \o <<" ">> \o parsed[end].text

RECURSIVE join_tokens(_, _, _)
join_tokens(parsed, p, end) ==
    IF end = p THEN parsed[p].tokens
    ELSE join_tokens(parsed, p, end - 1) \o parsed[end].tokens

merge_span(parsed, i, j) ==
    ConlluSentence(parsed[i].sid, join_texts(parsed, i, j),
             renumber_tokens_preserving_mwt(join_tokens(parsed, i, j)))

\* The index of the first scraped sentence whose normalized text starts
\* with p_norm, 0 when there is none.
target_idx(scraped, p_norm) ==
    LET hits == {idx \in 1..Len(scraped) :
                    has_prefix(normalize_text_A02(scraped[idx].text), p_norm)}
    IN IF hits = {} THEN 0
       ELSE CHOOSE idx \in hits : \A other \in hits : idx <= other

\* The inner loop of find_and_merge: the index `end` at which it stops.
RECURSIVE accumulate(_, _, _, _)
accumulate(parsed, p, end, target_norm) ==
    IF /\ normalize_text_A02(join_texts(parsed, p, end)) # target_norm
       /\ end + 1 <= Len(parsed)
    THEN accumulate(parsed, p, end + 1, target_norm)
    ELSE end

\* The sentence p written with its own text; matched says that its
\* normalized text is that of the scraped sentence found for it.
as_is_A02(parsed, p, matched) ==
    Emitted(ConlluSentence(parsed[p].sid, parsed[p].text,
                     renumber_tokens_preserving_mwt(parsed[p].tokens)),
            p, p, matched)

RECURSIVE find_and_merge(_, _, _)
find_and_merge(scraped, parsed, p) ==
    IF p > Len(parsed) THEN <<>>
    ELSE LET p_norm == normalize_text_A02(parsed[p].text)
             idx == target_idx(scraped, p_norm)
         IN IF idx = 0
            THEN <<as_is_A02(parsed, p, FALSE)>>
                    \o find_and_merge(scraped, parsed, p + 1)
            ELSE LET target_norm == normalize_text_A02(scraped[idx].text)
                     end == accumulate(parsed, p, p, target_norm)
                 IN IF /\ normalize_text_A02(join_texts(parsed, p, end))
                            = target_norm
                       /\ end > p
                    THEN <<Emitted(merge_span(parsed, p, end), p, end, TRUE)>>
                            \o find_and_merge(scraped, parsed, end + 1)
                    ELSE <<as_is_A02(parsed, p, p_norm = target_norm)>>
                            \o find_and_merge(scraped, parsed, p + 1)

\* scraped_map of stage 16: of the scraped sentences with one normalized
\* text the last one is kept.
scraped_map(scraped, norm) ==
    {idx \in 1..Len(scraped) :
        /\ normalize_text_A16(scraped[idx].text) = norm
        /\ \A later \in (idx + 1)..Len(scraped) :
              normalize_text_A16(scraped[later].text) # norm}

\* The loop of main of stage 16 over the parsed sentences.
main_A16(scraped, parsed) ==
    [p \in 1..Len(parsed) |->
        LET hit == scraped_map(scraped, normalize_text_A16(parsed[p].text))
        IN IF hit # {}
           THEN Emitted(ConlluSentence(parsed[p].sid, parsed[p].text,
                           process_and_modify_tokens(
                               scraped[CHOOSE idx \in hit : TRUE].tokens,
                               parsed[p].tokens)),
                        p, p, TRUE)
           ELSE Emitted(parsed[p], p, p, FALSE)]

(***************************************************************************)
(* Specification of the alignment of a corpus: up to MaxParsed parsed and  *)
(* up to ScrapedLen scraped sentences, over texts of which one is the      *)
(* other with a full stop and one the two others joined.                   *)
(***************************************************************************)
MaxParsed == 3

TextsAlign == {<<"a">>, <<"s">>, <<"a", ".">>, <<"a", " ", "s">>}

TokensAlign02 ==
    {<<ParsedRow(1, <<"a">>, Zero)>>,
     <<ParsedRow(1, <<"a">>, Num(2)), ParsedRow(2, <<"s">>, Zero)>>,
     <<Row(Hyphen(1, 2), <<"a", "s">>, <<>>, Underscore, "_"),
       ParsedRow(1, <<"a">>, Zero), ParsedRow(2, <<"s">>, Num(1))>>}

TokensAlign16 ==
    {<<ParsedRow(1, <<"a">>, Zero)>>,
     <<ParsedRow(1, <<"a">>, Num(2)), ParsedRow(2, <<"s">>, Zero)>>,
     <<ParsedRow(1, <<"a", "s">>, Zero)>>}

InitAlign(name, Tokens) ==
    /\ stage = name
    /\ \E k \in 1..MaxParsed, n \in 1..ScrapedLen :
         \E pt \in [1..k -> TextsAlign], pk \in [1..k -> Tokens],
            st \in [1..n -> TextsAlign] :
            inp = [scraped |-> [i \in 1..n |->
                                  ConlluSentence(i, st[i],
                                           <<ScrapedRow(1, st[i])>>)],
                   parsed |-> [i \in 1..k |-> ConlluSentence(i, pt[i], pk[i])]]
    /\ cur = <<>>
    /\ reported = {}

InitAlign02 == InitAlign("corpus02", TokensAlign02)

InitAlign16 == InitAlign("corpus16", TokensAlign16)

\* main of stage 02: the one line it prints is the final "[ok] wrote".
AlignA02 ==
    /\ stage = "corpus02"
    /\ stage' = "A02"
    /\ cur' = find_and_merge(inp.scraped, inp.parsed, 1)
    /\ reported' = reported \cup {[kind |-> "ok"]}
    /\ UNCHANGED inp

\* main of stage 16: the one line it prints is the final "[ok] Wrote".
AlignA16 ==
    /\ stage = "corpus16"
    /\ stage' = "A16-corpus"
    /\ cur' = main_A16(inp.scraped, inp.parsed)
    /\ reported' = reported \cup {[kind |-> "ok"]}
    /\ UNCHANGED inp

NextAlign == AlignA02 \/ AlignA16

SpecAlign == (InitAlign02 \/ InitAlign16) /\ [][NextAlign]_vars

(***************************************************************************)
(* prioel2conllu stages 03, 06 and 07: the stages that insert token lines. *)
(* A token line is the record of the attributes the three stages read and  *)
(* write: id (the first attribute of the line), form (the tuple of its     *)
(* characters), head-id, relation and presentation-after.  The lines of a  *)
(* sentence stand between its <sentence> and </sentence> lines.            *)
(***************************************************************************)
PToken(id, form, head, rel, pa) ==
    [id |-> id, form |-> form, head |-> head, rel |-> rel, pa |-> pa]

\* id + "0" of the decimal numeral id.
with_zero(id) == Num(10 * id[1])

\* form.split(" ") has two equal parts.
is_redup(form) ==
    \E n \in 1..Len(form) :
        /\ Len(form) = 2 * n + 1
        /\ form[n + 1] = " "
        /\ \A j \in 1..n : form[j] # " " /\ form[n + 1 + j] = form[j]

single_part(form) == SubSeq(form, 1, (Len(form) - 1) \div 2)

\* re.sub with the template \1<id>\2: an id of one digit, or of two digits
\* with a digit above 7, makes the group reference \1d, which raises
\* re.error.
template_raises(id) ==
    \/ id[1] < 10
    \/ id[1] < 100 /\ (id[1] \div 10 > 7 \/ id[1] % 10 > 7)

\* replace_id_suffix searches id="<id>" followed by a word boundary; the
\* quote is followed by a space, so nothing is replaced and the id stays.
replace_id_suffix(line, old_id, suffix) == line

\* set_attr(dup, "head-id", tok_id): a line without head-id gets one; on a
\* line with head-id the template \1<id>\2 raises, or its first three
\* characters are read as an octal escape and the attribute is overwritten
\* by one character and a quote, so that the line has no head-id any more.
set_head_03(line, tok_id) ==
    IF line.head = Absent THEN Returned([line EXCEPT !.head = tok_id])
    ELSE IF template_raises(tok_id) THEN Raised
    ELSE Returned([line EXCEPT !.head = Absent])

\* transform_line of stage 03: the lines written for one line.
transform_line(line) ==
    IF ~is_redup(line.form) THEN Returned(<<line>>)
    ELSE LET single == single_part(line.form)
             dup == set_head_03(
                        [replace_id_suffix(line, line.id, "0")
                            EXCEPT !.form = single],
                        line.id)
             orig == [line EXCEPT !.form = single]
         IN IF ~dup.ok THEN Raised
            ELSE Returned(<<[dup.tokens EXCEPT !.rel = "compound:redup"],
                            orig>>)

RECURSIVE process_file_03(_)
process_file_03(lines) ==
    IF lines = <<>> THEN Returned(<<>>)
    ELSE LET first == transform_line(Head(lines))
             rest == process_file_03(Tail(lines))
         IN IF first.ok /\ rest.ok
            THEN Returned(first.tokens \o rest.tokens)
            ELSE Raised

\* find_nearest_orphan_token of stages 06 and 07: the index of the nearest
\* other line of the sentence without head-id, the previous one on a tie;
\* 0 when there is none.
find_nearest_orphan_token(lines, idx) ==
    LET prevs == {j \in 1..(idx - 1) : lines[j].head = Absent}
        nexts == {j \in (idx + 1)..Len(lines) : lines[j].head = Absent}
        prev_idx == IF prevs = {} THEN 0 ELSE Last(prevs)
        next_idx == IF nexts = {} THEN 0
                    ELSE CHOOSE j \in nexts : \A other \in nexts : j <= other
    IN IF prev_idx # 0 /\ next_idx # 0
       THEN IF idx - prev_idx <= next_idx - idx THEN prev_idx ELSE next_idx
       ELSE IF prev_idx # 0 THEN prev_idx ELSE next_idx

punct_token(lines, i, form) ==
    PToken(with_zero(lines[i].id), form, form,
           "punct", Absent)

\* maybe_emit_punct of stage 06: the punctuation line to append after the
\* line i, or none.
maybe_emit_punct(lines, i) ==
    LET pa_val == lines[i].pa
        nearest_idx == find_nearest_orphan_token(lines, i)
    IN IF pa_val = Absent \/ Len(pa_val) # 1 \/ pa_val = <<"?">>
       THEN <<>>
       ELSE IF nearest_idx = 0 THEN <<>>
       ELSE <<[punct_token(lines, i, pa_val)
                 EXCEPT !.head = lines[nearest_idx].id]>>

RECURSIVE process_file_06(_, _)
process_file_06(lines, i) ==
    IF i > Len(lines) THEN <<>>
    ELSE <<lines[i]>> \o maybe_emit_punct(lines, i)
            \o process_file_06(lines, i + 1)

VOWELS == {"a"}

\* insert_q_after_last_vowel of stage 07.
insert_q_after_last_vowel(text) ==
    LET vowels == {i \in 1..Len(text) : text[i] \in VOWELS}
    IN IF vowels = {} THEN Append(text, "?")
       ELSE SubSeq(text, 1, Last(vowels)) \o <<"?">>
               \o SubSeq(text, Last(vowels) + 1, Len(text))

\* maybe_emit_before_and_after of stage 07.
triggers_07(line) == line.pa # Absent /\ line.pa # <<>> /\ line.pa[1] = "?"

before_line_07(lines, i) ==
    IF triggers_07(lines[i])
    THEN <<PToken(Hyphen(lines[i].id[1], with_zero(lines[i].id)[1]),
                  insert_q_after_last_vowel(lines[i].form),
                  Underscore, "_", Absent)>>
    ELSE <<>>

after_line_07(lines, i) ==
    LET nearest_idx == find_nearest_orphan_token(lines, i)
    IN IF triggers_07(lines[i]) /\ nearest_idx # 0
       THEN <<[punct_token(lines, i, <<"?">>)
                 EXCEPT !.head = lines[nearest_idx].id]>>
       ELSE <<>>

RECURSIVE process_file_07(_, _)
process_file_07(lines, i) ==
    IF i > Len(lines) THEN <<>>
    ELSE before_line_07(lines, i) \o <<lines[i]>> \o after_line_07(lines, i)
            \o process_file_07(lines, i + 1)

(***************************************************************************)
(* Specification of the inserting stages over one sentence, run in the     *)
(* order of the pipeline, each stage run or left out.  The ids of the      *)
(* sentence read are distinct.                                             *)
(***************************************************************************)
IdsIns == {1, 2, 10}

FormsIns == {<<"a">>, <<"s">>, <<"a", " ", "a">>, <<"a", " ", "s">>}

PresentationAfter == {Absent, <<",">>, <<"?">>}

InitIns ==
    /\ stage = "read"
    /\ \E k \in 1..MaxLen :
         \E id \in [1..k -> IdsIns], f \in [1..k -> FormsIns],
            h \in [1..k -> {0} \cup IdsIns],
            pa \in [1..k -> PresentationAfter] :
            /\ \A i, j \in 1..k : id[i] = id[j] => i = j
            /\ \A i \in 1..k :
                  h[i] # id[i] /\ (h[i] # 0 => \E j \in 1..k : id[j] = h[i])
            /\ inp = [i \in 1..k |->
                        PToken(Num(id[i]), f[i],
                               IF h[i] = 0 THEN Absent ELSE Num(h[i]),
                               "dep", pa[i])]
    /\ cur = inp
    /\ reported = {}

Ins03 ==
    /\ stage = "read"
    /\ Apply("p03", process_file_03(cur))
    /\ UNCHANGED <<inp, reported>>

Ins06 ==
    /\ stage \in {"read", "p03"}
    /\ stage' = "p06"
    /\ cur' = process_file_06(cur, 1)
    /\ UNCHANGED <<inp, reported>>

Ins07 ==
    /\ stage \in {"read", "p03", "p06"}
    /\ stage' = "p07"
    /\ cur' = process_file_07(cur, 1)
    /\ UNCHANGED <<inp, reported>>

NextIns == Ins03 \/ Ins06 \/ Ins07

SpecIns == InitIns /\ [][NextIns]_vars

(***************************************************************************)
(* Specification of the three splitting stages 03, 07 and 13 of Arak29,    *)
(* each over a sentence of its own of up to SplitLen atomic tokens with    *)
(* the ids 1..k.  The letters A, w, a, l stand for the letters of the word *)
(* of the documented example, whose exclamation mark stands before its     *)
(* last letter.                                                            *)
(***************************************************************************)
SplitLen == 2

Awal == <<"A", "w", "a", EXCL, "l">>

FormsSplit ==
    {<<"a">>, Awal, <<LEFT_GUIL, "a", EXCL>>, <<EXCL, "l">>, <<"a", "'">>,
     <<"'", "a", "?">>}

InitSplit ==
    \E k \in 1..SplitLen :
       \E f \in [1..k -> FormsSplit], h \in [1..k -> 0..k] :
          /\ \A i \in 1..k : h[i] # i
          /\ \/ /\ stage = "split03"
                /\ inp = [i \in 1..k |->
                            Tok03(Num(i), f[i], Num(h[i]), "dep", 0, Num(i))]
             \/ /\ stage \in {"split07", "split13"}
                /\ inp = [i \in 1..k |->
                            Row13(Num(i), f[i], Num(h[i]), "dep", Absent)]
          /\ cur = inp
          /\ reported = {}

SplitA03 ==
    /\ stage = "split03"
    /\ stage' = "s03"
    /\ cur' = process_sentence_A03(cur)
    /\ reported' = IF fix_exclamations(cur) # cur
                   THEN reported \cup {[kind |-> "modified"]}
                   ELSE reported
    /\ UNCHANGED inp

SplitA07 ==
    /\ stage = "split07"
    /\ Apply("s07", process_sentence_A07(cur))
    /\ reported' = IF /\ process_sentence_A07(cur).ok
                      /\ \E i \in 1..Len(cur) : puncts_A07(cur[i].form) # <<>>
                   THEN reported \cup {[kind |-> "modified"]}
                   ELSE reported
    /\ UNCHANGED inp

SplitA13 ==
    /\ stage = "split13"
    /\ stage' = "s13"
    /\ cur' = process_sentence_A13(cur)
    /\ reported' = reported \cup {[kind |-> "ok"]}
    /\ UNCHANGED inp

NextSplit == SplitA03 \/ SplitA07 \/ SplitA13

SpecSplit == InitSplit /\ [][NextSplit]_vars

(***************************************************************************)
(* The three renumbering functions over normalised sentences: atomic ids   *)
(* 1..N in order, each range row a-b standing right before its members     *)
(* a..b.  A prioel head-id is absent, "_", "0" or an id of the sentence;   *)
(* an Arak29 HEAD column is "_", "0" or an id of the sentence.  Each       *)
(* function is applied once and then once more to its own output; on the   *)
(* second application inp holds the sentence the function was given.       *)
(***************************************************************************)
NormLen == 3

\* The sets of pairwise disjoint ranges a-b, a < b, within 1..n.
NormSpans(n) ==
    LET All == {Hyphen(p[1], p[2]) : p \in {q \in (1..n) \X (1..n) : q[1] < q[2]}}
    IN {S \in SUBSET All :
          \A s \in S : \A t \in S : s # t => (s[2] < t[1] \/ t[2] < s[1])}

\* The rows of tokens i..n: a range of S starting at i, then token i.
RECURSIVE NormRows(_, _, _, _, _)
NormRows(i, n, S, heads, span_head) ==
    IF i > n THEN <<>>
    ELSE (IF \E s \in S : s[1] = i
          THEN <<[id |-> CHOOSE s \in S : s[1] = i, head |-> span_head]>>
          ELSE <<>>)
         \o <<[id |-> Num(i), head |-> heads[i]]>>
         \o NormRows(i + 1, n, S, heads, span_head)

InitNorm ==
    /\ \E n \in 1..NormLen : \E S \in NormSpans(n) :
          \/ /\ stage = "norm42"
             /\ \E heads \in [1..n -> {Absent, Underscore, Zero}
                                        \cup {Num(k) : k \in 1..n}] :
                \E span_head \in {Absent, Underscore} :
                   inp = NormRows(1, n, S, heads, span_head)
          \/ /\ stage \in {"norm07", "norm02"}
             /\ \E heads \in [1..n -> {Underscore, Zero}
                                        \cup {Num(k) : k \in 1..n}] :
                   inp = NormRows(1, n, S, heads, Underscore)
    /\ cur = inp
    /\ reported = {}

\* One application of a renumbering function f to the sentence at hand.
Renumber(from, to, out) ==
    /\ stage = from
    /\ stage' = to
    /\ inp' = cur
    /\ cur' = out
    /\ UNCHANGED reported

Norm42 == Renumber("norm42", "once42", process_sentence_42(cur))
Again42 == Renumber("once42", "twice42", process_sentence_42(cur))
Norm07 == Renumber("norm07", "once07", renumber_tokens_A07(cur))
Again07 == Renumber("once07", "twice07", renumber_tokens_A07(cur))
Norm02 == Renumber("norm02", "once02", renumber_tokens_preserving_mwt(cur))
Again02 == Renumber("once02", "twice02", renumber_tokens_preserving_mwt(cur))

NextNorm ==
    \/ Norm42 \/ Again42
    \/ Norm07 \/ Again07
    \/ Norm02 \/ Again02

SpecNorm == InitNorm /\ [][NextNorm]_vars

(***************************************************************************)
(* Stage 11 over one sentence: tokens numbered 1..k, each head-id absent   *)
(* or the id of another token, CCONJ and punctuation among them.           *)
(***************************************************************************)
InitCoord ==
    /\ stage = "read11"
    /\ ReadSentence(Attrs11)
    /\ cur = inp
    /\ reported = {}

Stage11 ==
    /\ stage = "read11"
    /\ Apply("11", process_sentence_11(cur))
    /\ UNCHANGED <<inp, reported>>

NextCoord == Stage11

SpecCoord == InitCoord /\ [][NextCoord]_vars

(***************************************************************************)
(* prioel2conllu stage 38: promote the first xadv/xcomp child of an empty  *)
(* V token and drop the empty V.                                           *)
(***************************************************************************)
\* set_attr(line, "head-id", value) of stages 38 and 39: a line without
\* head-id gets one; on a line with head-id the template \1<value>\2 raises
\* re.error, or its first three characters are read as an octal escape and
\* the attribute is overwritten by one character and a quote, so that the
\* line has no head-id any more.
set_head_38(line, value) ==
    IF ~has_head(line) THEN Returned(set_head(line, value))
    ELSE IF template_raises(value) THEN Raised
    ELSE Returned(remove_head(line))

\* children.get(v_id, []): the indices of the tokens whose head-id is v_id.
children_38(tokens, v_id) ==
    {j \in 1..Len(tokens) : v_id # Absent /\ tokens[j].head = v_id}

\* The first child with relation xadv or xcomp, 0 when there is none.
promoted_idx_38(tokens, v_id) ==
    LET found == {j \in children_38(tokens, v_id) :
                     tokens[j].rel \in {"xadv", "xcomp"}}
    IN IF found = {} THEN 0
       ELSE CHOOSE j \in found : \A y \in found : j <= y

\* The promoted child: relation of the empty V when it has one, head-id of
\* the empty V, or none when the empty V has none.
promote_38(child, tok) ==
    LET with_rel == IF tok.rel # NoRel THEN set_rel(child, tok.rel) ELSE child
    IN IF tok.head # Absent THEN set_head_38(with_rel, tok.head)
       ELSE Returned(remove_head(with_rel))

\* An index that passes over the token shifted into the place of the
\* deleted one: not what the code does.
skip_shifted_38(i) == i + 1

\* The index after `del tokens[i]`: i is not incremented, the next token
\* has shifted into position i.
after_delete_38(i) == i

\* The while loop of process_sentence from index i on.
RECURSIVE loop_38(_, _)
loop_38(tokens, i) ==
    IF i > Len(tokens) THEN Returned(tokens)
    ELSE
      LET tok == tokens[i]
          v_id == tok.id
          promoted_idx == promoted_idx_38(tokens, v_id)
          child == promote_38(tokens[promoted_idx], tok)
          child_id == tokens[promoted_idx].id
          others == children_38(tokens, v_id) \ {promoted_idx}
          edited == [j \in 1..Len(tokens) |->
                       IF j = promoted_idx THEN child.tokens
                       ELSE IF j \in others
                       THEN set_head_38(tokens[j], child_id).tokens
                       ELSE tokens[j]]
      IN IF tok.ets # "V" \/ v_id = Absent \/ promoted_idx = 0
         THEN loop_38(tokens, i + 1)
         ELSE IF ~child.ok THEN Raised
         ELSE IF \E j \in others : ~set_head_38(tokens[j], child_id).ok
         THEN Raised
         ELSE loop_38(RemoveAt(edited, {i}), after_delete_38(i))

process_sentence_38(tokens) == loop_38(tokens, 1)

(***************************************************************************)
(* Stage 38 over one sentence and then over its own output.  Token i has   *)
(* id i or 10 + i, so that head-id values of one digit (the template       *)
(* raises) and of two octal digits (the attribute is overwritten) both     *)
(* occur; a head-id is absent or the id of another token.                  *)
(***************************************************************************)
Len38 == 3

Attrs38 ==
    [rel : {NoRel, "xadv", "dep"}, ets : {"", "V"}]

InitV ==
    /\ stage = "read38"
    /\ \E k \in 1..Len38 :
         \E off \in {0, 10}, f \in [1..k -> Attrs38],
            h \in [1..k -> 0..k] :
            /\ \A i \in 1..k : h[i] # i
            /\ inp = [i \in 1..k |->
                        Token(Num(off + i),
                              IF h[i] = 0 THEN Absent ELSE Num(off + h[i]),
                              f[i].rel, "", f[i].ets, "", "")]
    /\ cur = inp
    /\ reported = {}

Stage38 ==
    /\ stage = "read38"
    /\ Apply("38", process_sentence_38(cur))
    /\ UNCHANGED <<inp, reported>>

\* process_sentence on its own output.
Again38 ==
    /\ stage = "38"
    /\ Apply("38 twice", process_sentence_38(cur))
    /\ UNCHANGED <<inp, reported>>

NextV == Stage38 \/ Again38

SpecV == InitV /\ [][NextV]_vars

(***************************************************************************)
(* Stage 41 over any one sentence, and then over its own output.           *)
(***************************************************************************)
InitLinim ==
    /\ stage = "read41"
    /\ ReadSentence(AttrsRoot)
    /\ cur = inp
    /\ reported = {}

Linim41 ==
    /\ stage = "read41"
    /\ Apply("41 once", process_sentence_41(cur))
    /\ UNCHANGED <<inp, reported>>

Again41 ==
    /\ stage = "41 once"
    /\ Apply("41 twice", process_sentence_41(cur))
    /\ UNCHANGED <<inp, reported>>

NextLinim == Linim41 \/ Again41

SpecLinim == InitLinim /\ [][NextLinim]_vars

(***************************************************************************)
(* The head-rewiring stages 11, 13 and 16, each over one sentence whose    *)
(* head-id links form no cycle; the CCONJ, SCONJ or AUX tokens of a        *)
(* sentence may depend on one another.                                     *)
(***************************************************************************)
TreeLen == 3

TreeHeads == {Absent} \cup {Num(n) : n \in 1..TreeLen}

AttrsTree11 ==
    [head : TreeHeads, rel : {"punct", "obl"}, pos : {"", "CCONJ"},
     ets : {""}, lemma : {""}, feat : {""}]

AttrsTree13 ==
    [head : TreeHeads, rel : {"adv", "obl"}, pos : {"", "SCONJ"},
     ets : {""}, lemma : {""}, feat : {""}]

AttrsTree16 ==
    [head : TreeHeads, rel : {"xobj", "pred"}, pos : {"", "AUX"},
     ets : {""}, lemma : {""}, feat : {""}]

\* The index of the token that token i names as its head, 0 when it names
\* none.
HeadIdx(tokens, i) ==
    IF i = 0 \/ tokens[i].head = Absent
          \/ \A j \in 1..Len(tokens) : tokens[j].id # tokens[i].head
    THEN 0
    ELSE CHOOSE j \in 1..Len(tokens) : tokens[j].id = tokens[i].head

\* The index reached from token i after n head-id links.
RECURSIVE Follow(_, _, _)
Follow(tokens, i, n) ==
    IF n = 0 THEN i ELSE Follow(tokens, HeadIdx(tokens, i), n - 1)

\* No token reaches itself by following head-id links.
Acyclic(tokens) ==
    \A i \in 1..Len(tokens) : \A n \in 1..Len(tokens) :
        Follow(tokens, i, n) # i

ReadTree(Attrs) ==
    \E k \in 1..TreeLen : \E f \in [1..k -> Attrs] :
        /\ inp = Sentence(f)
        /\ HeadsResolve(inp)
        /\ Acyclic(inp)

InitTree ==
    /\ \/ stage = "tree11" /\ ReadTree(AttrsTree11)
       \/ stage = "tree13" /\ ReadTree(AttrsTree13)
       \/ stage = "tree16" /\ ReadTree(AttrsTree16)
    /\ cur = inp
    /\ reported = {}

Tree11 ==
    /\ stage = "tree11"
    /\ Apply("rewired11", process_sentence_11(cur))
    /\ UNCHANGED <<inp, reported>>

Tree13 ==
    /\ stage = "tree13"
    /\ Apply("rewired13", process_sentence_13(cur))
    /\ UNCHANGED <<inp, reported>>

Tree16 ==
    /\ stage = "tree16"
    /\ Apply("rewired16", process_sentence_16(cur))
    /\ UNCHANGED <<inp, reported>>

NextTree == Tree11 \/ Tree13 \/ Tree16

SpecTree == InitTree /\ [][NextTree]_vars

(***************************************************************************)
(* prioel2conllu stage 39: promote the highest-ranking dependent of each   *)
(* empty V token and remove the empty V.  A line is a token line, a        *)
(* blanked line ("") or, once attributes have been written onto a blanked  *)
(* line, bare attribute text; src is the index of the line as read.        *)
(***************************************************************************)
Line39(id, head, rel, ets, text, src) ==
    [id |-> id, head |-> head, rel |-> rel, ets |-> ets, text |-> text,
     src |-> src]

HIERARCHY ==
    <<"nsubj", "obj", "iobj", "obl", "advmod", "csubj", "ccomp", "advcl",
      "dislocated", "vocative">>

RANK(rel) == CHOOSE r \in 1..Len(HIERARCHY) : HIERARCHY[r] = rel

\* tokens[v_idx] = "".
blank_39(line) == Line39(Absent, Absent, NoRel, "", "", line.src)

\* set_attr on a blanked line appends the attribute to the empty text,
\* which is then no longer empty.
written_39(line) == IF line.text = "" THEN [line EXCEPT !.text = "bare"] ELSE line

\* set_attr(line, "head-id", v_id), then relation := orphan unless the
\* relation is punct.
orphan_39(line, v_id) ==
    LET headed == set_head_38(written_39(line), v_id)
    IN IF ~headed.ok THEN Raised
       ELSE Returned(IF headed.tokens.rel # "punct"
                     THEN set_rel(headed.tokens, "orphan")
                     ELSE headed.tokens)

\* choose_highest: the index of the dependent whose relation ranks first in
\* HIERARCHY (the earliest among equals), 0 when no dependent has a ranked
\* relation.
choose_highest(tokens, deps) ==
    LET valid == {j \in deps : tokens[j].rel \in Range(HIERARCHY)}
    IN IF valid = {} THEN 0
       ELSE CHOOSE j \in valid :
               \A y \in valid :
                  \/ RANK(tokens[j].rel) < RANK(tokens[y].rel)
                  \/ RANK(tokens[j].rel) = RANK(tokens[y].rel) /\ j <= y

\* set_attr(chosen_line, "id", v_id): the chosen line has an id, so the
\* template \1<v_id>\2 raises or overwrites the attribute.
set_id_39(line, v_id) ==
    IF template_raises(v_id) THEN Raised
    ELSE Returned([line EXCEPT !.id = Absent])

\* Step 2: the chosen token takes relation, head-id and id of the empty V.
promote_39(chosen_line, v_line, v_id) ==
    LET re_labelled == IF v_line.rel # NoRel THEN set_rel(chosen_line, v_line.rel)
                    ELSE chosen_line
        re_headed == IF v_line.head # Absent
                     THEN set_head_38(re_labelled, v_line.head)
                     ELSE Returned(remove_head(re_labelled))
    IN IF ~re_headed.ok THEN Raised
       ELSE set_id_39(re_headed.tokens, v_id)

\* The loop over the snapshot of empty V entries; children is the index
\* built from the lines as read and never rebuilt.
RECURSIVE loop_39(_, _, _)
loop_39(read, tokens, entries) ==
    IF entries = <<>> THEN Returned(tokens)
    ELSE
      LET v_idx == Head(entries)
          v_id == read[v_idx].id
          v_line == tokens[v_idx]
          deps == {j \in 1..Len(read) : read[j].head = v_id}
          chosen_idx == choose_highest(tokens, deps)
          chosen_id == tokens[chosen_idx].id
          kids == {j \in 1..Len(read) :
                      read[j].head = chosen_id /\ tokens[j].text # ""}
          step1 == [j \in 1..Len(tokens) |->
                      IF j \in kids THEN orphan_39(tokens[j], v_id)
                      ELSE Returned(tokens[j])]
          chosen == promote_39(step1[chosen_idx].tokens, v_line, v_id)
          others == {j \in deps : tokens[j].id # chosen_id}
          step3 == [j \in 1..Len(tokens) |->
                      IF j = chosen_idx THEN chosen
                      ELSE IF j \in others
                      THEN IF step1[j].ok THEN orphan_39(step1[j].tokens, v_id)
                           ELSE Raised
                      ELSE step1[j]]
      IN IF tokens[v_idx].text = "" THEN loop_39(read, tokens, Tail(entries))
         ELSE IF chosen_idx = 0 THEN loop_39(read, tokens, Tail(entries))
         ELSE IF \E j \in 1..Len(tokens) : ~step1[j].ok \/ ~step3[j].ok
         THEN Raised
         ELSE loop_39(read,
                      [j \in 1..Len(tokens) |->
                          IF j = v_idx THEN blank_39(tokens[j])
                          ELSE step3[j].tokens],
                      Tail(entries))

\* kept = [t for t in tokens if t]
kept_39(tokens) ==
    RemoveAt(tokens, {j \in 1..Len(tokens) : tokens[j].text = ""})

process_sentence_39(tokens) ==
    LET empty_v_entries ==
            InOrder({j \in 1..Len(tokens) :
                        tokens[j].ets = "V" /\ tokens[j].id # Absent})
        done == loop_39(tokens, tokens, empty_v_entries)
    IN IF done.ok THEN Returned(kept_39(done.tokens)) ELSE Raised

(***************************************************************************)
(* Stage 39 over one sentence.  Token i has id i or 10 + i (see stage 38); *)
(* a head-id is absent or the id of another token.                         *)
(***************************************************************************)
Len39 == 4

Attrs39 == [rel : {"nsubj", "obj", "punct"}, ets : {"", "V"}]

InitEllipsis ==
    /\ stage = "read39"
    /\ \E k \in 1..Len39 :
         \E off \in {0, 10}, f \in [1..k -> Attrs39],
            h \in [1..k -> 0..k] :
            /\ \A i \in 1..k : h[i] # i
            /\ inp = [i \in 1..k |->
                        Line39(Num(off + i),
                               IF h[i] = 0 THEN Absent ELSE Num(off + h[i]),
                               f[i].rel, f[i].ets, "token", Num(i))]
    /\ cur = inp
    /\ reported = {}

Stage39 ==
    /\ stage = "read39"
    /\ Apply("39", process_sentence_39(cur))
    /\ UNCHANGED <<inp, reported>>

NextEllipsis == Stage39

SpecEllipsis == InitEllipsis /\ [][NextEllipsis]_vars

(***************************************************************************)
(* The end of the prioel2conllu chain at file level: stage 42 renumbers    *)
(* the sentences of a file and stage 43 exports it to CoNLL-U.  The file   *)
(* is the list of its token lines and sentence end tags; an end tag is     *)
(* written "</sentence>" or, with white space before the bracket,          *)
(* "</sentence >".  A token line carries id, head-id and                   *)
(* empty-token-sort.  The CoNLL-U text is the list of its sentences, each  *)
(* the list of its rows (ID and HEAD columns).                             *)
(***************************************************************************)
XToken(id, head, ets) == [id |-> id, head |-> head, ets |-> ets]

XTokenLine(t) == [kind |-> "token", tok |-> t]
XClose == [kind |-> "</sentence>", tok |-> XToken(Absent, Absent, "")]
XCloseSpaced == [kind |-> "</sentence >", tok |-> XToken(Absent, Absent, "")]

\* text.split("</sentence>"): the parts between the end tags written
\* exactly "</sentence>"; the tags themselves are not in the parts.
RECURSIVE split_exact(_, _, _)
split_exact(lines, part, parts) ==
    IF lines = <<>> THEN Append(parts, part)
    ELSE IF Head(lines) = XClose
         THEN split_exact(Tail(lines), <<>>, Append(parts, part))
         ELSE split_exact(Tail(lines), Append(part, Head(lines)), parts)

\* The token lines of a part, as tokens.
xtokens_of(part) ==
    LET idx == InOrder({j \in 1..Len(part) : part[j].kind = "token"})
    IN [x \in 1..Len(idx) |-> part[idx[x]].tok]

\* process_sentence of stage 42 on a part: the token lines are rewritten
\* in order, the other lines stay in place.
renumber_part_42(part) ==
    LET out == process_sentence_42(xtokens_of(part))
    IN [j \in 1..Len(part) |->
          IF part[j].kind = "token"
          THEN XTokenLine(out[Cardinality({y \in 1..j :
                                             part[y].kind = "token"})])
          ELSE part[j]]

\* sep.join(parts)
RECURSIVE join_parts(_)
join_parts(parts) ==
    IF parts = <<>> THEN <<>>
    ELSE IF Len(parts) = 1 THEN Head(parts)
    ELSE Head(parts) \o <<XClose>> \o join_parts(Tail(parts))

process_file_42(lines) ==
    LET parts == split_exact(lines, <<>>, <<>>)
    IN join_parts([i \in 1..Len(parts) |-> renumber_part_42(parts[i])])

\* emit_conllu_token: the ID and HEAD columns of a token.
emit_conllu_token(attrs) ==
    [id |-> IF attrs.id = Absent THEN Underscore ELSE attrs.id,
     head |-> IF attrs.head = Absent THEN Underscore ELSE attrs.head]

\* The loop of process_file of stage 43 over the lines of one block: a
\* token line without empty-token-sort is collected; a line that matches
\* "</sentence" followed by a word boundary emits the collected tokens as
\* one sentence; what is collected at the end of the block is dropped.
RECURSIVE export_block(_, _, _)
export_block(lines, sentence_tokens, out) ==
    IF lines = <<>> THEN out
    ELSE LET ln == Head(lines) IN
         IF ln.kind = "token"
         THEN export_block(Tail(lines),
                           IF ln.tok.ets # "" THEN sentence_tokens
                           ELSE Append(sentence_tokens, ln.tok),
                           out)
         ELSE export_block(Tail(lines), <<>>,
                           IF sentence_tokens = <<>> THEN out
                           ELSE Append(out,
                                   [x \in 1..Len(sentence_tokens) |->
                                       emit_conllu_token(sentence_tokens[x])]))

\* re.split(r'(?<=)</sentence>\s*', text): the blocks hold no end tag
\* written exactly "</sentence>".
RECURSIVE export_blocks(_, _)
export_blocks(blocks, out) ==
    IF blocks = <<>> THEN out
    ELSE export_blocks(Tail(blocks), export_block(Head(blocks), <<>>, out))

process_file_43(lines) ==
    export_blocks(split_exact(lines, <<>>, <<>>), <<>>)

ExportLen == 3
ExportSentences == 2

\* The token ids of the file: numbers above the sentence lengths, in
\* file order.
ExportId(s, i) == Num(ExportLen * s + i)

InitExport ==
    /\ stage = "xml"
    /\ \E n \in 1..ExportSentences :
         \E len \in [1..n -> 1..ExportLen],
            close \in [1..n -> {XClose, XCloseSpaced}] :
            \E h \in [1..n -> [1..ExportLen -> 0..ExportLen]],
               e \in [1..n -> [1..ExportLen -> {"", "V"}]] :
               /\ \A s \in 1..n : \A i \in 1..ExportLen :
                     IF i <= len[s] THEN h[s][i] # i /\ h[s][i] <= len[s]
                     ELSE h[s][i] = 0 /\ e[s][i] = ""
               /\ inp = join_chunks(
                     [s \in 1..n |->
                        [i \in 1..len[s] |->
                           XTokenLine(XToken(ExportId(s, i),
                                             IF h[s][i] = 0 THEN Absent
                                             ELSE ExportId(s, h[s][i]),
                                             e[s][i]))]
                        \o <<close[s]>>])
    /\ cur = inp
    /\ reported = {}

Renumber42 ==
    /\ stage = "xml"
    /\ stage' = "renumbered"
    /\ cur' = process_file_42(cur)
    /\ UNCHANGED <<inp, reported>>

Export43 ==
    /\ stage = "renumbered"
    /\ stage' = "conllu"
    /\ cur' = process_file_43(cur)
    /\ UNCHANGED <<inp, reported>>

NextExport == Renumber42 \/ Export43

SpecExport == InitExport /\ [][NextExport]_vars

(***************************************************************************)
(* Arak29 stage 16, the reconciliation loop pass by pass: cur holds the    *)
(* loop's variables `modified` and `iteration`.  One step is one run of    *)
(* the body of `while iteration < max_iters`: the pass over the zip, the   *)
(* copy of the tail, the removal of the markers, and either the break or   *)
(* the assignment of `modified`.  When the while condition fails the loop  *)
(* is left by the cap.  The last step is the return, which renumbers.      *)
(***************************************************************************)
PassLen == 3

InitPasses ==
    /\ stage = "loop"
    /\ \E k \in 1..PassLen, n \in 1..PassLen :
         \E pf \in [1..k -> FormsA16], sf \in [1..n -> FormsA16] :
            inp = [scraped |-> [i \in 1..n |-> ScrapedRow(i, sf[i])],
                   parsed |-> [i \in 1..k |->
                                 ParsedRow(i, pf[i],
                                           IF i = 1 THEN Zero ELSE Num(1))]]
    /\ cur = [modified |-> inp.parsed, iteration |-> 0]
    /\ reported = {}

\* `changes` at the end of a pass over `modified`.
changes_A16(scraped, modified) ==
    \E i \in 1..zip_len(scraped, modified) :
       changes_at_A16(scraped, modified, i)

Pass16 ==
    /\ stage = "loop"
    /\ IF cur.iteration >= max_iters
       THEN /\ stage' = "capped"
            /\ cur' = cur
       ELSE IF changes_A16(inp.scraped, cur.modified)
       THEN /\ stage' = "loop"
            /\ cur' = [modified |->
                          cleaned_A16(new_list_A16(inp.scraped,
                                                   cur.modified, 1), FALSE),
                       iteration |-> cur.iteration + 1]
       ELSE /\ stage' = "settled"
            /\ cur' = [cur EXCEPT !.iteration = @ + 1]
    /\ UNCHANGED <<inp, reported>>

Return16 ==
    /\ stage \in {"settled", "capped"}
    /\ stage' = IF stage = "settled" THEN "merged" ELSE "merged by cap"
    /\ cur' = [cur EXCEPT !.modified = renumber_tokens_A16(@)]
    /\ UNCHANGED <<inp, reported>>

NextPasses == Pass16 \/ Return16

SpecPasses == InitPasses /\ [][NextPasses]_vars

(***************************************************************************)
(* The two renumbering stages that rewrite heads through an old-to-new id  *)
(* map, each over an input of its own corpus.                              *)
(***************************************************************************)
InitRemap == Init42 \/ InitA13

NextRemap == Stage42 \/ StageA13

SpecRemap == InitRemap /\ [][NextRemap]_vars

\* The atomic (non-hyphen) tokens of a sentence, in order.
RECURSIVE Atomic(_)
Atomic(tokens) ==
    IF tokens = <<>> THEN <<>>
    ELSE IF Len(Head(tokens).id) = 1
         THEN <<Head(tokens)>> \o Atomic(Tail(tokens))
         ELSE Atomic(Tail(tokens))

\* The atomic tokens carry exactly the ids 1..N in token order.
SequentialIds(tokens) ==
    \A i \in 1..Len(Atomic(tokens)) : Atomic(tokens)[i].id = Num(i)

\* C1: after the renumbering pass over any token list (ids out of order or
\* reused) the atomic tokens carry exactly the ids 1..N in token order,
\* every id unique and none skipped.
C1_AtomicIdsSequential ==
    stage = "42" => SequentialIds(cur)

\* The ids of the tokens of `before` that `after` no longer holds.
DroppedIds(before, after) == IdsOf(before) \ IdsOf(after)

\* C6: Delete never removes a token that still has dependents: after stage
\* 37 has dropped the empty P tokens, no remaining token's head-id is the id
\* of a dropped token.
C6_NoDependentOfDroppedP ==
    stage = "37" =>
        \A i \in 1..Len(cur) : cur[i].head \notin DroppedIds(inp, cur)

\* The token of `tokens` with id `id` (ids are unique in the sentences read).
TokenWithId(tokens, id) ==
    CHOOSE t \in Range(tokens) : t.id = id

\* The dependents of the token with id `id` in sentence order.
DependentsOf(tokens, id) ==
    InOrder({j \in 1..Len(tokens) : tokens[j].head = id})

\* C7: after stage 12 every C token is gone, and every former dependent of a
\* C token has a head-id naming a token still present: the C token's own
\* head for its first dependent, the first dependent for the others.
C7_CTokensRemovedDependentsReattached ==
    stage = "12" =>
      /\ \A i \in 1..Len(cur) : cur[i].ets # "C"
      /\ \A c \in {j \in 1..Len(inp) : inp[j].ets = "C"} :
           LET deps == DependentsOf(inp, inp[c].id) IN
           \A d \in 1..Len(deps) :
              LET id == inp[deps[d]].id IN
              id \in IdsOf(cur) =>
                /\ TokenWithId(cur, id).head \in IdsOf(cur)
                /\ TokenWithId(cur, id).head =
                     (IF d = 1 THEN inp[c].head ELSE inp[deps[1]].id)

\* The tokens of a sentence with head-id "0".
ZeroHeadTokens(tokens) == {i \in 1..Len(tokens) : tokens[i].head = Zero}

\* C8: after stage 40, then 41, then 42, every sentence has exactly one
\* root: exactly one token has relation root and it is the only token whose
\* head-id is 0.
C8_ExactlyOneRoot ==
    stage = "42" =>
        /\ Cardinality(RootTokens(cur)) = 1
        /\ ZeroHeadTokens(cur) = RootTokens(cur)

\* Decide-from-snapshot-then-apply: every visit takes its conditions and
\* values from the unedited sentence `read` and writes its edit to `tokens`,
\* the visits applied in sentence order.
RECURSIVE snapshot_13(_, _, _)
snapshot_13(read, tokens, k) ==
    IF k > Len(read) THEN tokens
    ELSE snapshot_13(read, edit_13(read, tokens, k), k + 1)

RECURSIVE snapshot_14(_, _, _, _)
snapshot_14(read, tokens, fixed_ids, k) ==
    IF k > Len(read) THEN tokens
    ELSE snapshot_14(read, edit_14(read, tokens, {}, fixed_ids, k),
                     fixed_ids, k + 1)

RECURSIVE snapshot_16(_, _, _)
snapshot_16(read, tokens, k) ==
    IF k > Len(read) THEN tokens
    ELSE snapshot_16(read, edit_16(read, tokens, k), k + 1)

\* C9: the output of process_sentence in stages 13, 14 and 16 equals the
\* result of deciding all edits from the unedited input tokens and then
\* applying them.
C9_EqualsSnapshotThenApply ==
    /\ stage = "13" => cur = snapshot_13(inp, inp, 1)
    /\ stage = "14" =>
          cur = snapshot_14(inp, inp, collect_fixed_ids(<<inp>>), 1)
    /\ stage = "16" => cur = snapshot_16(inp, inp, 1)

\* C10: processing a whole file gives each sentence the same result as
\* processing that sentence alone (stage 14 with its set of fixed ids).
C10_SentencesIndependent ==
    stage = "file14" =>
        \A s \in 1..Len(inp) :
            LET alone == process_file_14(<<inp[s]>>)
            IN alone.ok /\ alone.tokens[1] = cur[s]

\* Every head that is neither the root marker nor the undefined marker is
\* the id of a token of the sentence.
HeadsNameTokens(tokens) ==
    \A i \in 1..Len(tokens) :
        tokens[i].head \notin {Zero, Underscore, Absent} =>
            tokens[i].head \in IdsOf(tokens)

\* C2: after the renumbering pass every head that is neither the root
\* marker nor the undefined marker equals the new id of a token that exists
\* in the same sentence.
C2_HeadsResolveAfterRenumber ==
    stage = "A16" => HeadsNameTokens(cur)

\* The row of the output that continues the input token with id `id`.
Continues(tokens, id) == {i \in 1..Len(tokens) : tokens[i].src = id}

\* C3: a token whose head named token T before the stage names the new id
\* of that same token T afterwards, also when T was split in the stage.
C3_HeadNamesSameToken ==
    stage = "A03" =>
        \A x \in 1..Len(cur) :
            LET h == IF cur[x].src = Absent THEN Zero
                     ELSE inp[cur[x].src[1]].head
            IN (h # Zero /\ Continues(cur, h) # {}) =>
                  \E y \in Continues(cur, h) : cur[x].head = cur[y].id

\* The rows of a sentence that are multiword-span rows.
SpanRows(tokens) == {r \in 1..Len(tokens) : is_hyphen_id(tokens[r].id)}

\* The positions of the member tokens of the span row at position r: the
\* rows that follow it, as many as its range a..b counts.
MembersOf(tokens, r) ==
    {m \in 1..Len(tokens) :
        m > r /\ m <= r + (tokens[r].id[2] - tokens[r].id[1] + 1)}

SpanRange(tokens, r) == tokens[r].id[1]..tokens[r].id[2]

\* C4: after renumbering, every multiword-span row a-b stands directly
\* before its member tokens (the rows that were its members in the input),
\* the range a..b is exactly the set of the new ids of those members, and
\* no two spans overlap.
C4_SpansCoverMembers ==
    stage = "42" =>
        /\ \A r \in SpanRows(inp) :
             /\ is_hyphen_id(cur[r].id)
             /\ cur[r + 1].id = Num(cur[r].id[1])
             /\ SpanRange(cur, r) =
                    {cur[m].id[1] : m \in MembersOf(inp, r)}
        /\ \A r1, r2 \in SpanRows(cur) :
             r1 # r2 => SpanRange(cur, r1) \cap SpanRange(cur, r2) = {}

\* The ids the rows of a sentence carry.
RowIds(tokens) == {tokens[i].id : i \in 1..Len(tokens)}

\* A head value that names a token (not the root or undefined marker) and
\* that no row of the sentence carries as its id.
Unresolved(tokens, head) ==
    /\ head \notin {Absent, Underscore, Zero}
    /\ head \notin RowIds(tokens)

\* C5: a head that refers to no existing id after the head-rewrite pass is
\* reported to the caller and is never auto-repaired into another value.
\* For stage 42: some report names the token and its unresolved head.  For
\* Arak29 stage 13: a row whose head named no row of the input still
\* carries that head.
C5_UnresolvedHeadReported ==
    /\ stage = "42" =>
         \A x \in 1..Len(cur) :
            Unresolved(cur, cur[x].head) =>
               \E r \in reported :
                  /\ r.kind = "renumber"
                  /\ r.new_id = cur[x].id
                  /\ r.new_head = cur[x].head
    /\ stage = "A13" =>
         \A x \in 1..Len(cur) :
            (cur[x].src # Absent
               /\ Unresolved(inp, inp[cur[x].src[1]].head)) =>
               cur[x].head = inp[cur[x].src[1]].head

\* No rule of stage 11 or 12 fires in the text: no token line is a CCONJ
\* and none is an empty C token.
NoRuleFires(lines) ==
    \A i \in 1..Len(lines) :
        lines[i].kind = "token" =>
            ~is_cconj(lines[i].tok) /\ lines[i].tok.ets # "C"

\* The sentences of a text: the token lists between the end markers.
SentencesOf(lines) ==
    LET chunks == split_close(lines, 1, <<>>, <<>>)
    IN [i \in 1..(Len(chunks) - 1) |-> tokens_of(chunks[i])]

\* C11: process_file of stages 11 and 12 writes a text in which no rule
\* fires exactly as it was read, and every sentence end marker of the
\* input is in the output, so the partition of the file into sentences is
\* unchanged.
C11_UneditedFileRoundTrips ==
    stage \in {"file11", "file12"} =>
        /\ NoRuleFires(inp) => cur = inp
        /\ Len(lines_of_kind(cur, "close")) = Len(lines_of_kind(inp, "close"))
        /\ Len(SentencesOf(cur)) = Len(SentencesOf(inp))

\* C12: a token line with the wrong column count is written to the output
\* unchanged or skipped with a reported warning; it is never removed from
\* the output without a report.
C12_WrongColumnCountKeptOrReported ==
    stage \in {"fileA03", "fileA07", "fileA13"} =>
        \A i \in 1..Len(inp) :
            inp[i].cols # Columns =>
                \/ \E j \in 1..Len(cur) : cur[j] = inp[i]
                \/ \E r \in reported : r.kind = "skipped" /\ r.line = i

\* The sentence of a stage 07 corpus is processed alone without a fault.
Sound07(sentence) == process_sentence_A07(sentence).ok

\* The block of a stage 12 corpus is processed alone without a fault.
Sound12(block) == process_sentence_A12(block).ok

\* C13: a fault in one sentence (no "# text" line in stage 12, a token id
\* that is not a plain integer in stage 07) never aborts the run: every
\* other sentence of the corpus is processed and written.
C13_FaultDoesNotAbortRun ==
    /\ stage \in {"A07", "A07-aborted"} =>
         \A s \in 1..Len(inp) :
            Sound07(inp[s]) =>
               \E j \in 1..Len(cur) :
                  cur[j] = process_sentence_A07(inp[s]).tokens
    /\ stage \in {"A12", "A12-aborted"} =>
         \A s \in 1..Len(inp) :
            Sound12(inp[s]) =>
               \E j \in 1..Len(cur) :
                  cur[j] = process_sentence_A12(inp[s]).tokens

\* C14: every parsed sentence that could not be aligned with a scraped
\* sentence is reported under its sentence id, and every parsed sentence of
\* the corpus is still processed into a written sentence.
C14_UnalignedSentenceReported ==
    stage \in {"A02", "A16-corpus"} =>
        /\ \A p \in 1..Len(inp.parsed) :
              \E j \in 1..Len(cur) : cur[j].first <= p /\ p <= cur[j].last
        /\ \A j \in 1..Len(cur) :
              ~cur[j].aligned =>
                 \E r \in reported :
                    r.kind = "unaligned" /\ r.sid = cur[j].sid

\* C15: after any sequence of the inserting stages 03, 06 and 07 no two
\* token lines of the sentence carry the same id.
C15_InsertedIdsUnique ==
    stage \in {"p03", "p06", "p07"} =>
        \A i, j \in 1..Len(cur) : cur[i].id = cur[j].id => i = j

\* C16: a token created with the placeholder head (the punctuation tokens
\* of a split) has, after the second renumbering pass, the new id of the
\* first atomic member of the span it belongs to as its head, in spans of
\* two and of three members.
C16_PlaceholderHeadIsFirstMember ==
    stage = "A03" =>
        \A k, s \in 1..Len(cur) :
            /\ cur[k].src = Absent
            /\ Len(cur[k].id) = 1
            /\ Len(cur[s].id) = 2
            /\ cur[s].id[1] <= cur[k].id[1]
            /\ cur[k].id[1] <= cur[s].id[2]
            => cur[k].head = Num(cur[s].id[1])

\* C17: the sentence of the single token with id 1 and the form of the
\* documented example comes out of the stages 03 and 07 as the span row
\* 1-2, the base token 1 with the form without its exclamation mark, and
\* the punctuation token 2 with the exclamation mark as form, head 1 and
\* deprel punct.
C17_ExampleSplit ==
    /\ stage \in {"s03", "s07"}
    /\ Len(inp) = 1
    /\ inp[1].form = Awal
    => /\ Len(cur) = 3
       /\ cur[1].id = Hyphen(1, 2)
       /\ cur[2].id = Num(1)
       /\ cur[2].form = <<"A", "w", "a", "l">>
       /\ cur[3].id = Num(2)
       /\ cur[3].form = <<EXCL>>
       /\ cur[3].head = Num(1)
       /\ cur[3].deprel = "punct"

\* The example token has been split by stage 03 or stage 07.
C17_ExampleSplit_Witness ==
    /\ stage \in {"s03", "s07"}
    /\ Len(inp) = 1
    /\ inp[1].form = Awal
    /\ Len(cur) = 3

\* The forms of the rows joined in order.
RECURSIVE ConcatForms(_)
ConcatForms(rows) ==
    IF rows = <<>> THEN <<>>
    ELSE Head(rows).form \o ConcatForms(Tail(rows))

\* C18: in the output of the splitting stages 03, 07 and 13 the forms of
\* the member tokens of every span row, joined in output order, are the
\* form of the span row, which is the form of the token or tokens split.
C18_PartsRebuildForm ==
    stage \in {"s03", "s07", "s13"} =>
        \A r \in SpanRows(cur) :
            r + (cur[r].id[2] - cur[r].id[1] + 1) <= Len(cur) =>
                ConcatForms(SubSeq(cur, r + 1,
                                   r + (cur[r].id[2] - cur[r].id[1] + 1)))
                    = cur[r].form

\* C19: when the scraped token starts with a leading letter, the parsed
\* token is that single letter and the scraped token is the letter joined
\* with the next parsed token, stage 16 writes one token whose FORM and
\* LEMMA are the letter followed by the FORM and LEMMA of the next parsed
\* token (the sentence of these tokens alone).
C19_LeadingLetterAbsorbed ==
    /\ stage = "A16"
    /\ Len(inp.scraped) = 1
    /\ Len(inp.parsed) = 2
    /\ rule3_A16(inp.scraped[1], inp.parsed[1])
    /\ inp.scraped[1].form = inp.parsed[1].form \o inp.parsed[2].form
    => /\ Len(cur) = 1
       /\ cur[1].form = inp.parsed[1].form \o inp.parsed[2].form
       /\ cur[1].lemma = inp.parsed[1].form \o inp.parsed[2].lemma

\* Rule 2 (the next parsed token is dropped) or rule 3 (the parsed token
\* itself is dropped) is the rule stage 16 applies at position i.
Absorbs(scraped, parsed, i) ==
    /\ i <= Len(scraped)
    /\ i < Len(parsed)
    /\ ~rule1_A16(scraped[i], parsed[i])
    /\ rule2_A16(scraped[i], parsed[i]) \/ rule3_A16(scraped[i], parsed[i])

\* The id of the parsed token that is dropped at position i.
AbsorbedId(scraped, parsed, i) ==
    IF rule2_A16(scraped[i], parsed[i]) THEN parsed[i + 1].id
    ELSE parsed[i].id

\* The one change of the sentence is the one at position i: no rule applies
\* at another position, and none applies to the tokens after the pass.
OnlyChange(scraped, parsed, i) ==
    LET after == cleaned_A16(new_list_A16(scraped, parsed, 1), FALSE)
    IN /\ \A j \in 1..Len(parsed) :
             j # i /\ j <= Len(scraped) => ~changes_at_A16(scraped, parsed, j)
       /\ \A j \in 1..Len(after) :
             j <= Len(scraped) => ~changes_at_A16(scraped, after, j)

\* C20: when rule 2 or rule 3 of stage 16 drops a parsed token, the tokens
\* whose head was the dropped token have the surviving token, which is the
\* token i of the output, as their head (sentences with this one change).
C20_DependentsReattached ==
    stage = "A16" =>
        \A i \in 1..Len(inp.parsed) :
            /\ Absorbs(inp.scraped, inp.parsed, i)
            /\ OnlyChange(inp.scraped, inp.parsed, i)
            => \A d \in 1..Len(inp.parsed) :
                  /\ d \notin {i, i + 1}
                  /\ inp.parsed[d].head
                        = AbsorbedId(inp.scraped, inp.parsed, i)
                  => /\ Len(cur) = Len(inp.parsed) - 1
                     /\ cur[IF d < i THEN d ELSE d - 1].head = Num(i)

\* C21: renumbering leaves the root and the undefined head markers as they
\* are: a head of 0 is still 0, and a head that is "_" or absent is still
\* "_" or absent, in the output of stage 42 and of Arak29 stage 13.
C21_RootAndUndefinedHeadsKept ==
    /\ stage = "42" =>
         \A x \in 1..Len(cur) :
            /\ inp[x].head = Zero => cur[x].head = Zero
            /\ inp[x].head \in {Absent, Underscore} =>
                  cur[x].head \in {Absent, Underscore}
    /\ stage = "A13" =>
         \A x \in 1..Len(cur) :
            cur[x].src # Absent =>
               /\ inp[cur[x].src[1]].head = Zero => cur[x].head = Zero
               /\ inp[cur[x].src[1]].head = Underscore =>
                     cur[x].head = Underscore

\* A head that names nothing: absent or "_".
UndefinedHead(h) == h \in {Absent, Underscore}

LaterDependents(c) ==
    {j \in (c + 1)..Len(inp) :
        inp[j].head = inp[c].id /\ ~is_punct_11(inp[j])}

\* C23: after stage 11, a CCONJ that had dependents has relation cc, and if
\* one of its input dependents is a non-punctuation token standing after it,
\* the head-id of the CCONJ is the id of the first such dependent.
C23_CconjHeadIsFirstLaterDependent ==
    stage = "11" =>
       \A c \in 1..Len(inp) :
          (is_cconj(inp[c]) /\ \E j \in 1..Len(inp) : inp[j].head = inp[c].id)
          => /\ cur[c].rel = "cc"
             /\ LaterDependents(c) # {} =>
                   cur[c].head =
                      inp[CHOOSE j \in LaterDependents(c) :
                             \A y \in LaterDependents(c) : j <= y].id

\* The place in the output of stage 03 of the first line written for input
\* line i.
PlaceAfter03(i) ==
    i + Cardinality({j \in 1..(i - 1) : is_redup(inp[j].form)})

\* C24: for a token whose form is "X X", stage 03 writes a new token with id
\* <id>0, head-id <id> and relation compound:redup, followed by the original
\* token with form X and its id unchanged.
C24_ReduplicationSplit ==
    stage = "p03" =>
       \A i \in 1..Len(inp) :
          is_redup(inp[i].form) =>
             LET p == PlaceAfter03(i) IN
             /\ p + 1 <= Len(cur)
             /\ cur[p].id = with_zero(inp[i].id)
             /\ cur[p].head = inp[i].id
             /\ cur[p].rel = "compound:redup"
             /\ cur[p + 1] = [inp[i] EXCEPT !.form = single_part(inp[i].form)]

\* C25: stage 38 applied to its own output returns that output unchanged
\* (and does not raise).
C25_Stage38Idempotent ==
    /\ stage = "38" => process_sentence_38(cur) = Returned(cur)
    /\ stage = "38 twice" => cur = process_sentence_38(inp).tokens

\* Stage 38 ran twice on a sentence from which the first run removed an
\* empty V, and in which another empty V remains.
C25_Stage38Idempotent_Witness ==
    /\ stage = "38 twice"
    /\ Len(cur) < Len(inp)
    /\ \E x \in 1..Len(cur) : cur[x].ets = "V"
    /\ \E x \in 1..Len(cur) : cur[x].ets # "V"

C28_OnlyTokensEditedOrRemoved ==
    stage = "39" =>
       /\ \A x \in 1..Len(cur) : cur[x].text = "token"
       /\ \A x \in 1..(Len(cur) - 1) : cur[x].src[1] < cur[x + 1].src[1]
       /\ \A i \in 1..Len(inp) :
             inp[i].ets # "V" => \E x \in 1..Len(cur) : cur[x].src = Num(i)

\* C29: in the CoNLL-U written by stage 43 from the output of stage 42 the
\* token ids of every sentence are 1..N in order, and every HEAD is 0 or
\* the id of a token of the sentence, also when the sentence held tokens
\* with empty-token-sort.
C29_ExportedIdsSequentialHeadsResolve ==
    stage = "conllu" =>
       \A s \in 1..Len(cur) :
          /\ \A x \in 1..Len(cur[s]) : cur[s][x].id = Num(x)
          /\ \A x \in 1..Len(cur[s]) :
                \/ cur[s][x].head = Zero
                \/ \E y \in 1..Len(cur[s]) : cur[s][y].id = cur[s][x].head

\* The number of characters of the forms that are leading letters: the
\* only tokens rule 3 drops are single leading letters, and no rule writes
\* a leading letter that the parsed tokens did not hold.
RECURSIVE LeadingCount(_)
LeadingCount(tokens) ==
    IF tokens = <<>> THEN 0
    ELSE Cardinality({x \in 1..Len(Head(tokens).form) :
                        lower(Head(tokens).form)[x] \in LEADING_LETTERS})
         + LeadingCount(Tail(tokens))

\* The passes the loop needs at most: one for every leading letter of the
\* parsed tokens, one for every scraped token, and the pass that finds no
\* change.
PassBound(scraped, parsed) == LeadingCount(parsed) + Len(scraped) + 1

\* C30: the reconciliation loop of Arak29 stage 16 reaches a pass in which
\* no rule fires after finitely many passes, for every pair of scraped and
\* parsed token lists, and does not need the cap of 1000 iterations to
\* stop: the loop is never left by the cap, and the number of passes never
\* exceeds PassBound, which depends on the input only.
C30_LoopSettlesWithoutCap ==
    /\ stage \notin {"capped", "merged by cap"}
    /\ cur.iteration <= PassBound(inp.scraped, inp.parsed)
    /\ cur.iteration < max_iters

\* The loop has settled after three passes that changed the tokens.
C30_LoopSettlesWithoutCap_Witness ==
    /\ stage = "merged"
    /\ cur.iteration >= 4

=============================================================================
